---- MODULE Spec2Model ----
(***************************************************************************)
(* Conditioning pipeline of the phase-noise analyzer (pna_qt):             *)
(*   - Utils::movingAverage / medianFilter / savitzkyGolay /               *)
(*     linearInterpolate                          (src/utils.cpp)          *)
(*   - PhaseNoiseAnalyzerApp::applyDataFiltering / applySpurRemoval /      *)
(*     updatePlot and the handlers that drive them                         *)
(*                                      (src/phasenoiseanalyzerapp.cpp)    *)
(*                                                                         *)
(* Numbers.  A double is modelled as an exact rational <<num, den>> with   *)
(* den > 0 in lowest terms; <<0, 0>> is NaN.  IEEE rounding is not         *)
(* modelled; NaN propagation and the "every comparison with NaN is false"  *)
(* rule are.  Arrays are TLA+ sequences; the operators below use the       *)
(* source's 0-based indices through At(s, i).                              *)
(***************************************************************************)
EXTENDS Integers, Sequences, FiniteSets, TLC

VARIABLES
  m_datasets,            \* QVector<PlotData>
  m_filteringEnabled,    \* bool
  m_spurRemovalEnabled,  \* bool
  m_filterTypeCombo,     \* current text of the filter-type combo box
  m_filterWindowSpin,    \* value of the window spin box
  filterControlsEnabled, \* isEnabled() of the combo box and the spin box
  call,                  \* one call of a Utils filter: arguments and result
  spur                   \* one run of the two spur passes on one dataset

vars == <<m_datasets, m_filteringEnabled, m_spurRemovalEnabled,
          m_filterTypeCombo, m_filterWindowSpin, filterControlsEnabled,
          call, spur>>

appVars == <<m_datasets, m_filteringEnabled, m_spurRemovalEnabled,
             m_filterTypeCombo, m_filterWindowSpin, filterControlsEnabled>>

(***************************************************************************)
(* Rational arithmetic with NaN                                            *)
(***************************************************************************)
NaN == <<0, 0>>

IsNaN(x) == x[2] = 0

Abs(a) == IF a < 0 THEN -a ELSE a

RECURSIVE Gcd(_, _)
Gcd(a, b) == IF b = 0 THEN a ELSE Gcd(b, a % b)

\* n / d in lowest terms; the pair is bound as a set element, so that n and
\* d are evaluated once
Norm(n, d) ==
  CHOOSE q \in {<<p[1] \div Gcd(Abs(p[1]), p[2]),
                  p[2] \div Gcd(Abs(p[1]), p[2])>> : p \in {<<n, d>>}} : TRUE

R(k) == <<k, 1>>

RAdd(x, y) ==
  IF IsNaN(x) \/ IsNaN(y) THEN NaN
  ELSE Norm(x[1] * y[2] + y[1] * x[2], x[2] * y[2])

RSub(x, y) ==
  IF IsNaN(x) \/ IsNaN(y) THEN NaN
  ELSE Norm(x[1] * y[2] - y[1] * x[2], x[2] * y[2])

RMul(x, y) ==
  IF IsNaN(x) \/ IsNaN(y) THEN NaN
  ELSE Norm(x[1] * y[1], x[2] * y[2])

\* x / y; the code never divides by zero (every division is guarded), 0/0 = NaN
RDiv(x, y) ==
  IF IsNaN(x) \/ IsNaN(y) \/ y[1] = 0 THEN NaN
  ELSE IF y[1] > 0 THEN Norm(x[1] * y[2], x[2] * y[1])
       ELSE Norm(-(x[1] * y[2]), x[2] * (-y[1]))

\* x < y on doubles: false as soon as one side is NaN
RLess(x, y) == ~IsNaN(x) /\ ~IsNaN(y) /\ x[1] * y[2] < y[1] * x[2]

\* x > y on doubles
RGt(x, y) == RLess(y, x)

RAbs(x) == IF IsNaN(x) THEN NaN ELSE <<Abs(x[1]), x[2]>>

At(s, i) == s[i + 1]

Max2(a, b) == IF a > b THEN a ELSE b

Min2(a, b) == IF a < b THEN a ELSE b

HasNaN(s) == \E k \in 1..Len(s) : IsNaN(s[k])

(***************************************************************************)
(* src/constants.h                                                         *)
(***************************************************************************)
SPUR_THRESHOLD == R(5)

DEFAULT_SPUR_WINDOW_SIZE == 21

DEFAULT_WINDOW_SIZE == 11

MIN_WINDOW_SIZE == 3

MAX_WINDOW_SIZE == 51

(***************************************************************************)
(* Utils::linearInterpolate                                                *)
(***************************************************************************)
\* qFabs(d) < std::numeric_limits<double>::epsilon().  Every non-zero value
\* of the model is a rational with a small denominator, far above 2.2e-16,
\* so on the model's values the test is "d is zero".
BelowEpsilon(d) == ~IsNaN(d) /\ d[1] = 0

linearInterpolate(x1, y1, x2, y2, x) ==
  IF BelowEpsilon(RSub(x2, x1)) THEN y1
  ELSE RAdd(y1, RDiv(RMul(RSub(y2, y1), RSub(x, x1)), RSub(x2, x1)))

(***************************************************************************)
(* Utils::movingAverage                                                    *)
(***************************************************************************)
\* slip: an even window is decremented
Oddify_Decrement(windowSize) ==
  IF windowSize % 2 = 0 THEN windowSize - 1 ELSE windowSize

\* if (windowSize % 2 == 0) windowSize++;
Oddify(windowSize) == IF windowSize % 2 = 0 THEN windowSize + 1 ELSE windowSize

\* slip: positions outside the array take the nearest edge sample
RECURSIVE MASum_Padded(_, _, _, _)
MASum_Padded(data, i, j, halfWindow) ==
  IF j > halfWindow THEN <<R(0), 0>>
  ELSE LET rest == MASum_Padded(data, i, j + 1, halfWindow)
           index == Max2(0, Min2(Len(data) - 1, i + j))
       IN <<RAdd(At(data, index), rest[1]), rest[2] + 1>>

\* the inner loop over j = from..halfWindow: <<currentSum, count>>
RECURSIVE MASum(_, _, _, _)
MASum(data, i, j, halfWindow) ==
  IF j > halfWindow THEN <<R(0), 0>>
  ELSE LET rest == MASum(data, i, j + 1, halfWindow)
           index == i + j
       IN IF index >= 0 /\ index < Len(data)
          THEN <<RAdd(At(data, index), rest[1]), rest[2] + 1>>
          ELSE rest

movingAverage(data, windowSize) ==
  LET w == Oddify(windowSize)
      halfWindow == w \div 2
  IN IF w < 3 \/ Len(data) = 0 THEN data
     ELSE [i1 \in 1..Len(data) |->
             LET sc == MASum(data, i1 - 1, -halfWindow, halfWindow)
             IN IF sc[2] > 0 THEN RDiv(sc[1], R(sc[2])) ELSE data[i1]]

(***************************************************************************)
(* Utils::movingAverage in rounded arithmetic.  A double keeps a fixed      *)
(* number of significand bits and every operation rounds its exact result  *)
(* to the nearest such value, ties to the even significand.  The model      *)
(* keeps SignificandBits bits instead of 53; exponents are unbounded (no    *)
(* overflow, no underflow).                                                 *)
(***************************************************************************)
SignificandBits == 4

RECURSIVE Pow2(_)
Pow2(k) == IF k = 0 THEN 1 ELSE 2 * Pow2(k - 1)

\* the power of two u with  2^(SignificandBits-1) <= a/u < 2^SignificandBits
\* for a > 0: the weight of the last significand bit of a
RECURSIVE UnitOf(_, _)
UnitOf(a, u) ==
  IF ~RLess(a, RMul(R(Pow2(SignificandBits)), u)) THEN UnitOf(a, RMul(u, R(2)))
  ELSE IF RLess(a, RMul(R(Pow2(SignificandBits - 1)), u))
       THEN UnitOf(a, RDiv(u, R(2)))
  ELSE u

\* the integer nearest to q >= 0, ties to even
NearestEven(q) ==
  LET m == q[1] \div q[2]
      twice == 2 * (q[1] - m * q[2])
  IN IF twice > q[2] \/ (twice = q[2] /\ m % 2 = 1) THEN m + 1 ELSE m

\* the double nearest to the exact value x
Round(x) ==
  IF IsNaN(x) \/ x[1] = 0 THEN x
  ELSE LET a == RAbs(x)
           u == UnitOf(a, R(1))
           m == NearestEven(RDiv(a, u))
       IN RMul(R(IF x[1] < 0 THEN -m ELSE m), u)

FAdd(x, y) == Round(RAdd(x, y))

FMul(x, y) == Round(RMul(x, y))

FDiv(x, y) == Round(RDiv(x, y))

\* the inner loop, left to right: currentSum += data[index]; count++
RECURSIVE MASumRounded(_, _, _, _, _)
MASumRounded(data, i, j, halfWindow, acc) ==
  IF j > halfWindow THEN acc
  ELSE LET index == i + j
       IN MASumRounded(data, i, j + 1, halfWindow,
                       IF index >= 0 /\ index < Len(data)
                       THEN <<FAdd(acc[1], At(data, index)), acc[2] + 1>>
                       ELSE acc)

\* slip: the sum is divided by the window length, not by count
MASampleRounded_FixedDivisor(data, i, halfWindow) ==
  LET sc == MASumRounded(data, i, -halfWindow, halfWindow, <<R(0), 0>>)
  IN FDiv(sc[1], R(2 * halfWindow + 1))

\* slip: currentSum starts at 1
MASampleRounded_SumFromOne(data, i, halfWindow) ==
  LET sc == MASumRounded(data, i, -halfWindow, halfWindow, <<R(1), 0>>)
  IN IF sc[2] > 0 THEN FDiv(sc[1], R(sc[2])) ELSE At(data, i)

\* smoothed[i]
MASampleRounded(data, i, halfWindow) ==
  LET sc == MASumRounded(data, i, -halfWindow, halfWindow, <<R(0), 0>>)
  IN IF sc[2] > 0 THEN FDiv(sc[1], R(sc[2])) ELSE At(data, i)

movingAverageRounded(data, windowSize) ==
  LET w == Oddify(windowSize)
      halfWindow == w \div 2
  IN IF w < 3 \/ Len(data) = 0 THEN data
     ELSE [i1 \in 1..Len(data) |-> MASampleRounded(data, i1 - 1, halfWindow)]

(***************************************************************************)
(* Utils::linearInterpolate in rounded arithmetic                          *)
(***************************************************************************)
FSub(x, y) == Round(RSub(x, y))

\* std::numeric_limits<double>::epsilon(): the gap between 1 and the next
\* double, 2^(1 - SignificandBits)
epsilon == <<1, Pow2(SignificandBits - 1)>>

\* slip: the degenerate interval returns the right anchor
linearInterpolateRounded_RightAnchor(x1, y1, x2, y2, x) ==
  IF RLess(RAbs(FSub(x2, x1)), epsilon) THEN y2
  ELSE FAdd(y1, FDiv(FMul(FSub(y2, y1), FSub(x, x1)), FSub(x2, x1)))

linearInterpolateRounded(x1, y1, x2, y2, x) ==
  IF RLess(RAbs(FSub(x2, x1)), epsilon) THEN y1
  ELSE FAdd(y1, FDiv(FMul(FSub(y2, y1), FSub(x, x1)), FSub(x2, x1)))

(***************************************************************************)
(* Utils::medianFilter / Utils::rollingMedian                              *)
(***************************************************************************)
\* index = std::max(0, std::min(size - 1, index))
ClampIndex(index, size) == Max2(0, Min2(size - 1, index))

\* slip: positions outside the array are mirrored at the edge
MedianWindow_Mirrored(data, i, halfWindow) ==
  [k \in 1..(2 * halfWindow + 1) |->
     LET index == i + (k - 1 - halfWindow)
         a == IF index < 0 THEN -index ELSE index
         b == IF a >= Len(data) THEN 2 * (Len(data) - 1) - a ELSE a
     IN At(data, ClampIndex(b, Len(data)))]

\* the window collected for sample i: data[clamp(i + j)], j = -half..half
MedianWindow(data, i, halfWindow) ==
  [k \in 1..(2 * halfWindow + 1) |->
     At(data, ClampIndex(i + (k - 1 - halfWindow), Len(data)))]

\* slip: the largest element of the window is taken
SortedAt_Largest(window, pos) ==
  CHOOSE v \in {window[k] : k \in 1..Len(window)} :
    \A k \in 1..Len(window) : ~RLess(v, window[k])

\* std::sort(window) followed by window[pos] on a NaN-free window: the
\* element v with  #{x < v} <= pos < #{x <= v}  (the contract of std::sort).
SortedAt(window, pos) ==
  CHOOSE v \in {window[k] : k \in 1..Len(window)} :
    /\ Cardinality({k \in 1..Len(window) : RLess(window[k], v)}) <= pos
    /\ pos < Cardinality({k \in 1..Len(window) : ~RLess(v, window[k])})

\* The values window[window.size() / 2] can take after std::sort.  With a
\* NaN in the window operator< is not a strict weak ordering and std::sort
\* has undefined behaviour: the build leaves some arrangement of the window,
\* so any element of the window can end up in the middle.
MedianValues(window) ==
  IF HasNaN(window) THEN {window[k] : k \in 1..Len(window)}
  ELSE {SortedAt(window, Len(window) \div 2)}

\* every array medianFilter(data, windowSize) can return
medianFilter(data, windowSize) ==
  LET w == Oddify(windowSize)
      halfWindow == w \div 2
  IN IF w < 3 \/ Len(data) = 0 THEN {data}
     ELSE IF ~HasNaN(data)
     THEN {[i1 \in 1..Len(data) |->
              SortedAt(MedianWindow(data, i1 - 1, halfWindow), w \div 2)]}
     ELSE {f \in [1..Len(data) -> {data[k] : k \in 1..Len(data)}] :
             \A i1 \in 1..Len(data) :
               f[i1] \in MedianValues(MedianWindow(data, i1 - 1, halfWindow))}

rollingMedian(data, windowSize) == medianFilter(data, windowSize)

(***************************************************************************)
(* Utils::savitzkyGolay                                                    *)
(***************************************************************************)
coeffs_5 == <<-3, 12, 17, 12, -3>>

norm_5 == 35

coeffs_7 == <<-2, 3, 6, 7, 6, 3, -2>>

norm_7 == 21

coeffs_11 == <<-36, 9, 44, 69, 84, 89, 84, 69, 44, 9, -36>>

norm_11 == 429

DefaultPolyOrder == 3

\* slip: no fallback kernel above 15, the size is reported unsupported
SGKernel_NoFallback(w) ==
  IF w = 5 THEN [coeffs |-> coeffs_5, norm |-> norm_5, windowSize |-> 5]
  ELSE IF w = 7 THEN [coeffs |-> coeffs_7, norm |-> norm_7, windowSize |-> 7]
  ELSE IF w >= 9 /\ w <= 15
       THEN [coeffs |-> coeffs_11, norm |-> norm_11, windowSize |-> 11]
  ELSE [coeffs |-> <<>>, norm |-> 1, windowSize |-> 0]

\* the kernel selected for the (oddified) window: [coeffs, norm, windowSize],
\* windowSize = 0 when the size is unsupported
SGKernel(w) ==
  IF w = 5 THEN [coeffs |-> coeffs_5, norm |-> norm_5, windowSize |-> 5]
  ELSE IF w = 7 THEN [coeffs |-> coeffs_7, norm |-> norm_7, windowSize |-> 7]
  ELSE IF w >= 9 /\ w <= 15
       THEN [coeffs |-> coeffs_11, norm |-> norm_11, windowSize |-> 11]
  ELSE IF w > 15
       THEN [coeffs |-> coeffs_11, norm |-> norm_11, windowSize |-> 11]
  ELSE [coeffs |-> <<>>, norm |-> 1, windowSize |-> 0]

\* Edge handling of the convolution: reflect, then clamp
SGIndex(index, size) ==
  LET a == IF index < 0 THEN -index ELSE index
      b == IF a >= size THEN 2 * (size - 1) - a ELSE a
  IN ClampIndex(b, size)

RECURSIVE SGSum(_, _, _, _, _)
SGSum(data, coeffs, i, j, halfWindow) ==
  IF j > halfWindow THEN R(0)
  ELSE RAdd(RMul(R(At(coeffs, j + halfWindow)),
                 At(data, SGIndex(i + j, Len(data)))),
            SGSum(data, coeffs, i, j + 1, halfWindow))

\* slip: the sum is divided by the window length, not by the kernel's norm
SGConvolve_DividedByLength(data, kern) ==
  LET halfWindow == kern.windowSize \div 2
  IN [i1 \in 1..Len(data) |->
        RDiv(SGSum(data, kern.coeffs, i1 - 1, -halfWindow, halfWindow),
             R(kern.windowSize))]

\* the convolution loop, every index, with reflected indices
SGConvolve(data, kern) ==
  LET halfWindow == kern.windowSize \div 2
  IN [i1 \in 1..Len(data) |->
        RDiv(SGSum(data, kern.coeffs, i1 - 1, -halfWindow, halfWindow),
             R(kern.norm))]

\* slip: the copy loops cover one sample less at each end
SGCopyEdges_OneLess(data, smoothed, halfWindow) ==
  [i1 \in 1..Len(data) |->
     IF i1 - 1 < halfWindow - 1 \/ i1 - 1 >= Len(data) - halfWindow + 1
     THEN data[i1] ELSE smoothed[i1]]

\* slip: the loop over the last halfWindow samples is missing
SGCopyEdges_HeadOnly(data, smoothed, halfWindow) ==
  [i1 \in 1..Len(data) |->
     IF i1 - 1 < halfWindow THEN data[i1] ELSE smoothed[i1]]

\* the two copy loops over the first and the last halfWindow samples
SGCopyEdges(data, smoothed, halfWindow) ==
  [i1 \in 1..Len(data) |->
     IF i1 - 1 < halfWindow \/ i1 - 1 >= Len(data) - halfWindow
     THEN data[i1] ELSE smoothed[i1]]

savitzkyGolay(data, windowSize, polyOrder) ==
  LET w == Oddify(windowSize)
      kern == SGKernel(w)
  IN IF w < 5 \/ polyOrder >= w \/ Len(data) < w THEN data
     ELSE IF kern.windowSize = 0 THEN data
     ELSE SGCopyEdges(data, SGConvolve(data, kern), kern.windowSize \div 2)

(***************************************************************************)
(* The indices into data and into the output array that a filter call      *)
(* evaluates (operator[] on data, smoothed, filtered)                      *)
(***************************************************************************)
\* slip: the range test on index is missing
movingAverageIndices_Unguarded(data, windowSize) ==
  LET w == Oddify(windowSize)
      halfWindow == w \div 2
  IN IF w < 3 \/ Len(data) = 0 THEN {}
     ELSE UNION {{i} \cup {i + j : j \in (-halfWindow)..halfWindow} :
                   i \in 0..(Len(data) - 1)}

\* movingAverage: data[index] under the range test, smoothed[i]
movingAverageIndices(data, windowSize) ==
  LET w == Oddify(windowSize)
      halfWindow == w \div 2
  IN IF w < 3 \/ Len(data) = 0 THEN {}
     ELSE UNION {{i} \cup {i + j : j \in
                             {j \in (-halfWindow)..halfWindow :
                                i + j >= 0 /\ i + j < Len(data)}} :
                   i \in 0..(Len(data) - 1)}

\* medianFilter: data[index] with the clamped index, filtered[i]
medianFilterIndices(data, windowSize) ==
  LET w == Oddify(windowSize)
      halfWindow == w \div 2
  IN IF w < 3 \/ Len(data) = 0 THEN {}
     ELSE UNION {{i} \cup {ClampIndex(i + j, Len(data)) :
                             j \in (-halfWindow)..halfWindow} :
                   i \in 0..(Len(data) - 1)}

\* savitzkyGolay: data[index] with the reflected index and smoothed[i] in
\* the convolution loop, then data[i] and smoothed[i] in the two copy loops
savitzkyGolayIndices(data, windowSize, polyOrder) ==
  LET w == Oddify(windowSize)
      kern == SGKernel(w)
      halfWindow == kern.windowSize \div 2
  IN IF w < 5 \/ polyOrder >= w \/ Len(data) < w THEN {}
     ELSE IF kern.windowSize = 0 THEN {}
     ELSE UNION {{i} \cup {SGIndex(i + j, Len(data)) :
                             j \in (-halfWindow)..halfWindow} :
                   i \in 0..(Len(data) - 1)}
            \cup 0..(halfWindow - 1)
            \cup (Len(data) - halfWindow)..(Len(data) - 1)

(***************************************************************************)
(* PhaseNoiseAnalyzerApp::applySpurRemoval, the two passes on one dataset  *)
(***************************************************************************)
\* qAbs(rightFreq - leftFreq) > 1e-9.  Frequencies of the model lie on the
\* integer grid, so two frequencies are more than 1e-9 apart iff they differ.
ExceedsFreqTolerance(d) == ~IsNaN(d) /\ d[1] # 0

\* slip: ">=" for ">" in the marking test
IsSpurSample_AtLeast(ref, base) ==
  ~IsNaN(ref) /\ ~IsNaN(base) /\ ~RLess(RSub(ref, base), SPUR_THRESHOLD)

\* Method 1, the marking test for one sample
IsSpurSample(ref, base) ==
  ~IsNaN(ref) /\ ~IsNaN(base) /\ RGt(RSub(ref, base), SPUR_THRESHOLD)

SpurMarks(sourceRef, baseline) ==
  [k \in 1..Len(sourceRef) |-> IsSpurSample(sourceRef[k], baseline[k])]

\* while (i < N && isSpur[i]) i++;
RECURSIVE SkipSpurs(_, _)
SkipSpurs(isSpur, i) ==
  IF i < Len(isSpur) /\ At(isSpur, i) THEN SkipSpurs(isSpur, i + 1) ELSE i

\* while (left >= 0 && isSpur[left]) left--;  if (left < 0) left = 0;
RECURSIVE FindLeft(_, _)
FindLeft(isSpur, left) ==
  IF left >= 0 /\ At(isSpur, left) THEN FindLeft(isSpur, left - 1)
  ELSE IF left < 0 THEN 0 ELSE left

\* while (right < N && isSpur[right]) right++;  if (right >= N) right = N - 1;
RECURSIVE FindRight(_, _)
FindRight(isSpur, right) ==
  IF right < Len(isSpur) /\ At(isSpur, right) THEN FindRight(isSpur, right + 1)
  ELSE IF right >= Len(isSpur) THEN Len(isSpur) - 1 ELSE right

\* slip: interpolation over the sample index instead of the frequency
Pass1Value_ByIndex(frequencyOffset, processedMeas, left, right, j) ==
  LET leftVal == At(processedMeas, left)
      rightVal == At(processedMeas, right)
      leftFreq == At(frequencyOffset, left)
      rightFreq == At(frequencyOffset, right)
  IN IF right > left /\ ExceedsFreqTolerance(RSub(rightFreq, leftFreq))
     THEN linearInterpolate(R(left), leftVal, R(right), rightVal, R(j))
     ELSE leftVal

\* slip: a run that starts at index 0 has no sample on its left and is
\* filled from its right anchor
Pass1Value_NoLeftAnchor(frequencyOffset, processedMeas, left, right, j) ==
  LET leftVal == At(processedMeas, left)
      rightVal == At(processedMeas, right)
      leftFreq == At(frequencyOffset, left)
      rightFreq == At(frequencyOffset, right)
  IN IF j = left THEN rightVal
     ELSE IF right > left /\ ExceedsFreqTolerance(RSub(rightFreq, leftFreq))
     THEN linearInterpolate(leftFreq, leftVal, rightFreq, rightVal,
                            At(frequencyOffset, j))
     ELSE leftVal

\* the value written to sample j of the run [start, end]
Pass1Value(frequencyOffset, processedMeas, left, right, j) ==
  LET leftVal == At(processedMeas, left)
      rightVal == At(processedMeas, right)
      leftFreq == At(frequencyOffset, left)
      rightFreq == At(frequencyOffset, right)
  IN IF right > left /\ ExceedsFreqTolerance(RSub(rightFreq, leftFreq))
     THEN linearInterpolate(leftFreq, leftVal, rightFreq, rightVal,
                            At(frequencyOffset, j))
     ELSE leftVal

\* one iteration of "while (i < N)" of Method 1
Pass1Iter(frequencyOffset, isSpur, processedMeas, i) ==
  IF At(isSpur, i)
  THEN LET start == i
           next == SkipSpurs(isSpur, i)
           end == next - 1
           left == FindLeft(isSpur, start - 1)
           right == FindRight(isSpur, end + 1)
       IN [i |-> next,
           meas |-> [k \in 1..Len(processedMeas) |->
                       IF k - 1 >= start /\ k - 1 <= end
                       THEN Pass1Value(frequencyOffset, processedMeas,
                                       left, right, k - 1)
                       ELSE processedMeas[k]]]
  ELSE [i |-> i + 1, meas |-> processedMeas]

RECURSIVE Pass1Loop(_, _, _, _)
Pass1Loop(frequencyOffset, isSpur, processedMeas, i) ==
  IF i < Len(isSpur)
  THEN LET s == Pass1Iter(frequencyOffset, isSpur, processedMeas, i)
       IN Pass1Loop(frequencyOffset, isSpur, s.meas, s.i)
  ELSE processedMeas

\* slip: the test written as "not (difference <= threshold)" without the
\* NaN guards
RisingEdge_NotAtMost(currentRef, i) ==
  LET d == RSub(At(currentRef, i), At(currentRef, i - 1))
  IN ~(~IsNaN(d) /\ ~RLess(SPUR_THRESHOLD, d))

\* Method 2, rising edge at i
RisingEdge(currentRef, i) ==
  /\ ~IsNaN(At(currentRef, i))
  /\ ~IsNaN(At(currentRef, i - 1))
  /\ RGt(RSub(At(currentRef, i), At(currentRef, i - 1)), SPUR_THRESHOLD)

\* Method 2, falling edge at j
FallingEdge(currentRef, j) ==
  /\ ~IsNaN(At(currentRef, j))
  /\ ~IsNaN(At(currentRef, j - 1))
  /\ RGt(RSub(At(currentRef, j - 1), At(currentRef, j)), SPUR_THRESHOLD)

\* while (j < N) { if (falling edge at j) break; j++; }
RECURSIVE FindFalling(_, _)
FindFalling(currentRef, j) ==
  IF j < Len(currentRef) /\ ~FallingEdge(currentRef, j)
  THEN FindFalling(currentRef, j + 1)
  ELSE j

\* slip: left anchor taken at start instead of start - 1
Pass2Value_AnchorAtStart(frequencyOffset, finalMeas, start, j, k) ==
  LET leftVal == At(finalMeas, start)
      rightVal == At(finalMeas, j)
      leftFreq == At(frequencyOffset, start)
      rightFreq == At(frequencyOffset, j)
  IN IF ExceedsFreqTolerance(RSub(rightFreq, leftFreq))
     THEN linearInterpolate(leftFreq, leftVal, rightFreq, rightVal,
                            At(frequencyOffset, k))
     ELSE leftVal

\* slip: the sample frequency and the right anchor frequency swapped in the
\* call of linearInterpolate
Pass2Value_SwappedArgs(frequencyOffset, finalMeas, start, j, k) ==
  LET leftVal == At(finalMeas, start - 1)
      rightVal == At(finalMeas, j)
      leftFreq == At(frequencyOffset, start - 1)
      rightFreq == At(frequencyOffset, j)
  IN IF ExceedsFreqTolerance(RSub(rightFreq, leftFreq))
     THEN linearInterpolate(leftFreq, leftVal, At(frequencyOffset, k),
                            rightVal, rightFreq)
     ELSE leftVal

\* the value written to sample k of a matched region start..j-1
Pass2Value(frequencyOffset, finalMeas, start, j, k) ==
  LET leftVal == At(finalMeas, start - 1)
      rightVal == At(finalMeas, j)
      leftFreq == At(frequencyOffset, start - 1)
      rightFreq == At(frequencyOffset, j)
  IN IF ExceedsFreqTolerance(RSub(rightFreq, leftFreq))
     THEN linearInterpolate(leftFreq, leftVal, rightFreq, rightVal,
                            At(frequencyOffset, k))
     ELSE leftVal

\* for (k = start; k < j; ++k) finalMeas[k] = <interpolated or left value>
Pass2Interpolate(frequencyOffset, finalMeas, start, j) ==
  [k \in 1..Len(finalMeas) |->
     IF k - 1 >= start /\ k - 1 < j
     THEN Pass2Value(frequencyOffset, finalMeas, start, j, k - 1)
     ELSE finalMeas[k]]

\* slip: the fill stops one sample short of the end
Pass2ForwardFill_Short(finalMeas, start) ==
  [k \in 1..Len(finalMeas) |->
     IF k - 1 >= start /\ k - 1 < Len(finalMeas) - 1
     THEN At(finalMeas, start - 1) ELSE finalMeas[k]]

\* for (k = start; k < N; ++k) finalMeas[k] = leftVal;
Pass2ForwardFill(finalMeas, start) ==
  [k \in 1..Len(finalMeas) |->
     IF k - 1 >= start THEN At(finalMeas, start - 1) ELSE finalMeas[k]]

\* slip: after a matched region the scan resumes at its rising edge
Pass2Iter_ResumeAtStart(frequencyOffset, currentRef, finalMeas, i) ==
  LET N == Len(currentRef)
  IN IF RisingEdge(currentRef, i)
     THEN LET start == i
              j == FindFalling(currentRef, start + 1)
          IN IF j < N
             THEN [i |-> start,
                   meas |-> Pass2Interpolate(frequencyOffset, finalMeas,
                                             start, j),
                   edges |-> {<<"rising", start>>, <<"falling", j>>}]
             ELSE [i |-> N,
                   meas |-> Pass2ForwardFill(finalMeas, start),
                   edges |-> {<<"rising", start>>}]
     ELSE [i |-> i + 1, meas |-> finalMeas, edges |-> {}]

\* one iteration of "while (i < N - 1)" of Method 2; edges are the edge
\* detections of this iteration
Pass2Iter(frequencyOffset, currentRef, finalMeas, i) ==
  LET N == Len(currentRef)
  IN IF RisingEdge(currentRef, i)
     THEN LET start == i
              j == FindFalling(currentRef, start + 1)
          IN IF j < N
             THEN [i |-> j,
                   meas |-> Pass2Interpolate(frequencyOffset, finalMeas,
                                             start, j),
                   edges |-> {<<"rising", start>>, <<"falling", j>>}]
             ELSE [i |-> N,
                   meas |-> Pass2ForwardFill(finalMeas, start),
                   edges |-> {<<"rising", start>>}]
     ELSE [i |-> i + 1, meas |-> finalMeas, edges |-> {}]

RECURSIVE Pass2Loop(_, _, _, _)
Pass2Loop(frequencyOffset, currentRef, finalMeas, i) ==
  IF i < Len(currentRef) - 1
  THEN LET s == Pass2Iter(frequencyOffset, currentRef, finalMeas, i)
       IN Pass2Loop(frequencyOffset, currentRef, s.meas, s.i)
  ELSE finalMeas

\* both methods on one dataset with N >= 3, for one baseline
RemoveSpurs(frequencyOffset, sourceRef, sourceMeas, baseline) ==
  LET isSpur == SpurMarks(sourceRef, baseline)
      processedMeas == Pass1Loop(frequencyOffset, isSpur, sourceMeas, 0)
  IN Pass2Loop(frequencyOffset, sourceRef, processedMeas, 1)

(***************************************************************************)
(* The two passes on doubles: the same code with linearInterpolate on the  *)
(* rounded arithmetic.  Copies and comparisons are exact on doubles.       *)
(***************************************************************************)
Pass1ValueRounded(frequencyOffset, processedMeas, left, right, j) ==
  LET leftVal == At(processedMeas, left)
      rightVal == At(processedMeas, right)
      leftFreq == At(frequencyOffset, left)
      rightFreq == At(frequencyOffset, right)
  IN IF right > left /\ ExceedsFreqTolerance(FSub(rightFreq, leftFreq))
     THEN linearInterpolateRounded(leftFreq, leftVal, rightFreq, rightVal,
                                   At(frequencyOffset, j))
     ELSE leftVal

Pass1IterRounded(frequencyOffset, isSpur, processedMeas, i) ==
  IF At(isSpur, i)
  THEN LET start == i
           next == SkipSpurs(isSpur, i)
           end == next - 1
           left == FindLeft(isSpur, start - 1)
           right == FindRight(isSpur, end + 1)
       IN [i |-> next,
           meas |-> [k \in 1..Len(processedMeas) |->
                       IF k - 1 >= start /\ k - 1 <= end
                       THEN Pass1ValueRounded(frequencyOffset, processedMeas,
                                              left, right, k - 1)
                       ELSE processedMeas[k]]]
  ELSE [i |-> i + 1, meas |-> processedMeas]

RECURSIVE Pass1LoopRounded(_, _, _, _)
Pass1LoopRounded(frequencyOffset, isSpur, processedMeas, i) ==
  IF i < Len(isSpur)
  THEN LET s == Pass1IterRounded(frequencyOffset, isSpur, processedMeas, i)
       IN Pass1LoopRounded(frequencyOffset, isSpur, s.meas, s.i)
  ELSE processedMeas

Pass2ValueRounded(frequencyOffset, finalMeas, start, j, k) ==
  LET leftVal == At(finalMeas, start - 1)
      rightVal == At(finalMeas, j)
      leftFreq == At(frequencyOffset, start - 1)
      rightFreq == At(frequencyOffset, j)
  IN IF ExceedsFreqTolerance(FSub(rightFreq, leftFreq))
     THEN linearInterpolateRounded(leftFreq, leftVal, rightFreq, rightVal,
                                   At(frequencyOffset, k))
     ELSE leftVal

Pass2InterpolateRounded(frequencyOffset, finalMeas, start, j) ==
  [k \in 1..Len(finalMeas) |->
     IF k - 1 >= start /\ k - 1 < j
     THEN Pass2ValueRounded(frequencyOffset, finalMeas, start, j, k - 1)
     ELSE finalMeas[k]]

Pass2IterRounded(frequencyOffset, currentRef, finalMeas, i) ==
  LET N == Len(currentRef)
  IN IF RisingEdge(currentRef, i)
     THEN LET start == i
              j == FindFalling(currentRef, start + 1)
          IN IF j < N
             THEN [i |-> j,
                   meas |-> Pass2InterpolateRounded(frequencyOffset,
                                                    finalMeas, start, j)]
             ELSE [i |-> N, meas |-> Pass2ForwardFill(finalMeas, start)]
     ELSE [i |-> i + 1, meas |-> finalMeas]

RECURSIVE Pass2LoopRounded(_, _, _, _)
Pass2LoopRounded(frequencyOffset, currentRef, finalMeas, i) ==
  IF i < Len(currentRef) - 1
  THEN LET s == Pass2IterRounded(frequencyOffset, currentRef, finalMeas, i)
       IN Pass2LoopRounded(frequencyOffset, currentRef, s.meas, s.i)
  ELSE finalMeas

\* both methods on one dataset with N >= 3 on doubles, for one baseline
RemoveSpursRounded(frequencyOffset, sourceRef, sourceMeas, baseline) ==
  LET isSpur == SpurMarks(sourceRef, baseline)
      processedMeas == Pass1LoopRounded(frequencyOffset, isSpur, sourceMeas, 0)
  IN Pass2LoopRounded(frequencyOffset, sourceRef, processedMeas, 1)

(***************************************************************************)
(* PhaseNoiseAnalyzerApp: applySpurRemoval, applyDataFiltering, updatePlot *)
(* A dataset is a record of the arrays of PlotData and hasReferenceData;   *)
(* its field sourceMeas is a history field: the array the spur-removal run *)
(* of the last updatePlot started from for this dataset (the local         *)
(* sourceMeas), <<>> when that updatePlot ran no spur removal on it.       *)
(***************************************************************************)
\* the branch "if (!m_spurRemovalEnabled)" for one dataset
SpurDisabledDataset(d, filteringEnabled) ==
  IF filteringEnabled THEN [d EXCEPT !.sourceMeas = <<>>]
  ELSE [d EXCEPT !.phaseNoiseFiltered = d.phaseNoise,
                 !.referenceNoiseFiltered = d.referenceNoise,
                 !.sourceMeas = <<>>]

\* slip: the skipped dataset is reverted to the raw arrays whatever the
\* filtering flag
SkipDataset_AlwaysRaw(d, filteringEnabled) ==
  [d EXCEPT !.phaseNoiseFiltered = d.phaseNoise,
            !.referenceNoiseFiltered = d.referenceNoise,
            !.sourceMeas = <<>>]

\* the branch "if (!data.hasReferenceData || data.frequencyOffset.isEmpty())"
SkipDataset(d, filteringEnabled) ==
  IF filteringEnabled THEN [d EXCEPT !.sourceMeas = <<>>]
  ELSE [d EXCEPT !.phaseNoiseFiltered = d.phaseNoise,
                 !.referenceNoiseFiltered = d.referenceNoise,
                 !.sourceMeas = <<>>]

\* the body of the dataset loop with spur removal enabled: every dataset
\* value it can leave (one per baseline rollingMedian can return)
SpurRemovalDataset(d, filteringEnabled) ==
  IF ~d.hasReferenceData \/ Len(d.frequencyOffset) = 0
  THEN {SkipDataset(d, filteringEnabled)}
  ELSE LET sourceRef == IF filteringEnabled THEN d.referenceNoiseFiltered
                        ELSE d.referenceNoise
           sourceMeas == IF filteringEnabled THEN d.phaseNoiseFiltered
                         ELSE d.phaseNoise
       IN IF Len(sourceRef) < 3
          THEN {[d EXCEPT !.phaseNoiseFiltered = sourceMeas,
                          !.sourceMeas = sourceMeas]}
          ELSE {[d EXCEPT !.phaseNoiseFiltered =
                             RemoveSpurs(d.frequencyOffset, sourceRef,
                                         sourceMeas, b),
                          !.referenceNoiseFiltered =
                             IF filteringEnabled THEN @ ELSE d.referenceNoise,
                          !.sourceMeas = sourceMeas] :
                 b \in rollingMedian(sourceRef, DEFAULT_SPUR_WINDOW_SIZE)}

\* the lists whose k-th element is drawn from the k-th set
RECURSIVE SeqProduct(_)
SeqProduct(sets) ==
  IF Len(sets) = 0 THEN {<<>>}
  ELSE LET rest == SeqProduct(Tail(sets))
       IN {<<h>> \o t : h \in Head(sets), t \in rest}

applySpurRemoval(datasets, filteringEnabled, spurRemovalEnabled) ==
  IF ~spurRemovalEnabled
  THEN {[k \in 1..Len(datasets) |->
           SpurDisabledDataset(datasets[k], filteringEnabled)]}
  ELSE SeqProduct([k \in 1..Len(datasets) |->
                     SpurRemovalDataset(datasets[k], filteringEnabled)])

\* updatePlot: the only statement that changes the datasets is the call of
\* applySpurRemoval; the active curve it then plots is ActiveMeasured
updatePlot(datasets, filteringEnabled, spurRemovalEnabled) ==
  applySpurRemoval(datasets, filteringEnabled, spurRemovalEnabled)

\* noiseData of updatePlot (and of onExportData)
ActiveMeasured(d, filteringEnabled, spurRemovalEnabled) ==
  IF spurRemovalEnabled THEN d.phaseNoiseFiltered
  ELSE IF filteringEnabled THEN d.phaseNoiseFiltered ELSE d.phaseNoise

FilterTypes == {"Moving Average", "Median Filter", "Savitzky-Golay"}

\* the arrays the filter selected by filterType can return
FilterBy(filterType, data, window) ==
  IF filterType = "Moving Average" THEN {movingAverage(data, window)}
  ELSE IF filterType = "Median Filter" THEN medianFilter(data, window)
  ELSE IF filterType = "Savitzky-Golay"
       THEN {savitzkyGolay(data, window, DefaultPolyOrder)}
  ELSE {data}

\* slip: the filtered measurement also replaces the raw one
FilterDataset_RawOverwritten(d, filterType, window) ==
  IF Len(d.frequencyOffset) = 0 THEN {d}
  ELSE {[d EXCEPT !.phaseNoiseFiltered = pf, !.phaseNoise = pf,
                  !.referenceNoiseFiltered = rf] :
          pf \in FilterBy(filterType, d.phaseNoise, window),
          rf \in IF d.hasReferenceData
                 THEN FilterBy(filterType, d.referenceNoise, window)
                 ELSE {d.referenceNoiseFiltered}}

\* the body of the dataset loop of applyDataFiltering
FilterDataset(d, filterType, window) ==
  IF Len(d.frequencyOffset) = 0 THEN {d}
  ELSE {[d EXCEPT !.phaseNoiseFiltered = pf, !.referenceNoiseFiltered = rf] :
          pf \in FilterBy(filterType, d.phaseNoise, window),
          rf \in IF d.hasReferenceData
                 THEN FilterBy(filterType, d.referenceNoise, window)
                 ELSE {d.referenceNoiseFiltered}}

applyDataFiltering(datasets, filteringEnabled, spurRemovalEnabled, filterType, window) ==
  IF ~filteringEnabled
  THEN updatePlot(datasets, filteringEnabled, spurRemovalEnabled)
  ELSE IF Len(datasets) = 0 THEN {datasets}
  ELSE UNION {updatePlot(ds, filteringEnabled, spurRemovalEnabled) :
                ds \in SeqProduct([k \in 1..Len(datasets) |->
                                     FilterDataset(datasets[k], filterType,
                                                   window)])}

\* "Re-apply filtering or revert to original data" of toggleDataFiltering
RefilterOrPlot(datasets, filteringEnabled, spurRemovalEnabled, filterType, window) ==
  IF filteringEnabled
  THEN applyDataFiltering(datasets, filteringEnabled, spurRemovalEnabled,
                          filterType, window)
  ELSE updatePlot(datasets, filteringEnabled, spurRemovalEnabled)

(***************************************************************************)
(* Bounds of the checked inputs                                            *)
(***************************************************************************)
MaxShortLen == 3       \* filter inputs: every array over FilterValues up to this length

MaxLongLen == 17       \* filter inputs: impulses and ramps up to this length

MaxWindowInput == 18   \* filter windows -MaxNegWindow..MaxWindowInput, and 51

MaxNegWindow == 2

MaxRefLen == 5         \* spur inputs: NaN-free references up to this length

MaxNaNRefLen == 3      \* spur inputs: references with NaN up to this length

MaxDatasets == 2       \* application: datasets loaded at the same time

MaxSpinInput == 8      \* application: values entered in the window spin box

MaxRoundedLen == 4     \* rounded arithmetic: constant arrays up to this length

MaxRoundedWindow == 5  \* rounded arithmetic: windows 0..MaxRoundedWindow

MaxSpotLen == 3        \* spot noise: samples of the first dataset

MaxSpurRoundedLen == 3 \* spur removal on doubles: samples of the dataset

MaxSliderDatasets == 2 \* sliders: datasets loaded at the same time

(***************************************************************************)
(* One call of a filter of Utils (specification SpecFilter)                *)
(***************************************************************************)
FilterValues == {R(0), R(1), R(9)}

SeqsOver(S, n) == UNION {[1..m -> S] : m \in 0..n}

Impulse(n, p) == [k \in 1..n |-> IF k = p THEN R(1) ELSE R(0)]

Ramp(n) == [k \in 1..n |-> R(k * k)]

\* a constant array with one outlier in the middle
OutlierExample == <<R(1), R(1), R(1), R(9), R(1), R(1), R(1)>>

FilterData ==
  SeqsOver(FilterValues, MaxShortLen)
    \cup {OutlierExample}
    \cup {Impulse(n, p) : n \in 1..MaxLongLen, p \in 1..MaxLongLen}
    \cup {Ramp(n) : n \in 1..MaxLongLen}

FilterWindows == ((0 - MaxNegWindow)..MaxWindowInput) \cup {MAX_WINDOW_SIZE}

FilterNames == {"movingAverage", "medianFilter", "savitzkyGolay"}

IdleCall == [pc |-> "idle", fn |-> "", data |-> <<>>, windowSize |-> 0,
             result |-> <<>>, touched |-> {}]

IdleSpur == [pc |-> "idle", frequencyOffset |-> <<>>, sourceRef |-> <<>>,
             sourceMeas |-> <<>>, baseline |-> <<>>, isSpur |-> <<>>,
             processedMeas |-> <<>>, finalMeas |-> <<>>, i |-> 0,
             edges |-> {}, phaseNoiseFiltered |-> <<>>]

\* the application right after construction without files
AppInit ==
  /\ m_datasets = <<>>
  /\ m_filteringEnabled = FALSE
  /\ m_spurRemovalEnabled = FALSE
  /\ m_filterTypeCombo = "Moving Average"
  /\ m_filterWindowSpin = DEFAULT_WINDOW_SIZE
  /\ filterControlsEnabled = TRUE

FilterInit ==
  /\ AppInit
  /\ spur = IdleSpur
  /\ call \in {[pc |-> "in", fn |-> f, data |-> d, windowSize |-> w,
                 result |-> <<>>, touched |-> {}] :
                 f \in FilterNames, d \in FilterData, w \in FilterWindows}

CallMovingAverage ==
  /\ call.pc = "in" /\ call.fn = "movingAverage"
  /\ call' = [call EXCEPT !.pc = "out",
                          !.result = movingAverage(call.data, call.windowSize),
                          !.touched = movingAverageIndices(call.data,
                                                           call.windowSize)]
  /\ UNCHANGED <<appVars, spur>>

CallMedianFilter ==
  /\ call.pc = "in" /\ call.fn = "medianFilter"
  /\ \E out \in medianFilter(call.data, call.windowSize) :
       call' = [call EXCEPT !.pc = "out", !.result = out,
                            !.touched = medianFilterIndices(call.data,
                                                            call.windowSize)]
  /\ UNCHANGED <<appVars, spur>>

CallSavitzkyGolay ==
  /\ call.pc = "in" /\ call.fn = "savitzkyGolay"
  /\ call' = [call EXCEPT !.pc = "out",
                          !.result = savitzkyGolay(call.data, call.windowSize,
                                                   DefaultPolyOrder),
                          !.touched = savitzkyGolayIndices(call.data,
                                                           call.windowSize,
                                                           DefaultPolyOrder)]
  /\ UNCHANGED <<appVars, spur>>

FilterNext == CallMovingAverage \/ CallMedianFilter \/ CallSavitzkyGolay

SpecFilter == FilterInit /\ [][FilterNext]_vars

(***************************************************************************)
(* One call of movingAverage or medianFilter on doubles, every arithmetic  *)
(* operation rounded (specification SpecRounded)                           *)
(***************************************************************************)
\* the integers that fit the significand
RoundedValues == {R(k) : k \in 0..(Pow2(SignificandBits) - 1)}

RoundedData ==
  {[k \in 1..n |-> v] : n \in 0..MaxRoundedLen, v \in RoundedValues}
    \cup SeqsOver({R(1), R(-3), R(Pow2(SignificandBits) - 1)}, MaxShortLen)

RoundedWindows == 0..MaxRoundedWindow

RoundedInit ==
  /\ AppInit
  /\ spur = IdleSpur
  /\ call \in {[pc |-> "in", fn |-> f, data |-> d, windowSize |-> w,
                 result |-> <<>>, touched |-> {}] :
                 f \in {"movingAverage", "medianFilter"},
                 d \in RoundedData, w \in RoundedWindows}

CallMovingAverageRounded ==
  /\ call.pc = "in" /\ call.fn = "movingAverage"
  /\ call' = [call EXCEPT !.pc = "out",
                          !.result = movingAverageRounded(call.data,
                                                          call.windowSize),
                          !.touched = movingAverageIndices(call.data,
                                                           call.windowSize)]
  /\ UNCHANGED <<appVars, spur>>

RoundedNext == CallMovingAverageRounded \/ CallMedianFilter

SpecRounded == RoundedInit /\ [][RoundedNext]_vars

(***************************************************************************)
(* One call of linearInterpolate on doubles (specification SpecInterp)     *)
(***************************************************************************)
\* abscissas: 0, half an epsilon, 1, 3, and 1 plus an epsilon
InterpAbscissas ==
  {R(0), <<1, Pow2(SignificandBits)>>, R(1), R(3),
   <<Pow2(SignificandBits - 1) + 1, Pow2(SignificandBits - 1)>>}

\* ordinates: 0, 1, 10 and the largest integer of the significand
InterpOrdinates == {R(0), R(1), R(10), R(Pow2(SignificandBits) - 1)}

InterpInit ==
  /\ AppInit
  /\ spur = IdleSpur
  /\ \E x1 \in InterpAbscissas, x2 \in InterpAbscissas,
        x \in InterpAbscissas \cup {R(5)},
        y1 \in InterpOrdinates, y2 \in InterpOrdinates :
       call = [pc |-> "in", fn |-> "linearInterpolate", x1 |-> x1,
               y1 |-> y1, x2 |-> x2, y2 |-> y2, x |-> x, result |-> NaN]

CallLinearInterpolate ==
  /\ call.pc = "in" /\ call.fn = "linearInterpolate"
  /\ call' = [call EXCEPT !.pc = "out",
                !.result = linearInterpolateRounded(call.x1, call.y1,
                                                    call.x2, call.y2, call.x)]
  /\ UNCHANGED <<appVars, spur>>

InterpNext == CallLinearInterpolate

SpecInterp == InterpInit /\ [][InterpNext]_vars

(***************************************************************************)
(* Spot noise: the end of updatePlot (axis range, calculateSpotNoise) on   *)
(* given datasets and slider positions (specification SpecSpot)            *)
(*                                                                         *)
(* The distance qAbs(qLn(f) - qLn(t)) is a pair <<ratio, rounding>>: the   *)
(* ratio max(f/t, t/f), whose logarithm the distance is in real numbers,   *)
(* and the place of the computed double relative to the double nearest to  *)
(* that logarithm: -1 (below), 0 (equal) or 1 (above).  Distances of       *)
(* different ratios compare as the ratios do; distances of one ratio       *)
(* compare as their roundings do.  A sample at the target has the         *)
(* distance 0 exactly.  The rounding of every other distance is an input,  *)
(* one per frequency of the scanned curve; qLn(5.0) has rounding 0.        *)
(***************************************************************************)
X_AXIS_MIN == <<1, 10>>

FREQ_POINTS == <<<<1, 10>>, R(1), R(10), R(100), R(1000), R(10000), R(100000), R(1000000), R(10000000)>>

\* QString::arg(x, 0, 'f', 0) for x >= 0: x rounded to no decimals
FormatFixed0(x) == ToString((2 * x[1] + x[2]) \div (2 * x[2]))

getFreqInfo(freq) ==
  [value |-> freq,
   displayName |->
     IF ~RLess(freq, R(1000000))
     THEN FormatFixed0(RDiv(freq, R(1000000))) \o " MHz"
     ELSE IF ~RLess(freq, R(1000))
          THEN FormatFixed0(RDiv(freq, R(1000))) \o " kHz"
          ELSE FormatFixed0(freq) \o " Hz"]

FREQ_POINT_INFOS == [k \in 1..Len(FREQ_POINTS) |-> getFreqInfo(FREQ_POINTS[k])]

\* the x axis range updatePlot sets from the two slider indices
ViewRange(minIndex, maxIndex) ==
  LET xMin0 == At(FREQ_POINTS, minIndex)
      xMax0 == At(FREQ_POINTS, maxIndex)
      xMin  == IF RLess(xMin0, X_AXIS_MIN) THEN X_AXIS_MIN ELSE xMin0
      xMax  == IF ~RGt(xMax0, xMin) THEN RMul(xMin, R(10)) ELSE xMax0
  IN [lower |-> xMin, upper |-> xMax]

\* the data of graphMeasured after setData(freqData, noiseData), in the
\* order the scan of calculateSpotNoise visits it
DataContainer(d) ==
  [k \in 1..Len(d.frequencyOffset) |->
     [key |-> d.frequencyOffset[k], value |-> d.measured[k]]]

\* the first dataset that is visible and has data, 0 when there is none
FirstVisible(datasets) ==
  LET S == {k \in 1..Len(datasets) :
              datasets[k].isVisible /\ Len(datasets[k].frequencyOffset) > 0}
  IN IF S = {} THEN 0 ELSE CHOOSE k \in S : \A j \in S : k <= j

InView_Exclusive(targetFreq, range) ==
  RGt(targetFreq, range.lower) /\ RLess(targetFreq, range.upper)

InView(targetFreq, range) ==
  ~(RLess(targetFreq, range.lower) \/ RGt(targetFreq, range.upper))

\* qAbs(qLn(currentFreq) - qLn(targetFreq))
LnDist(currentFreq, targetFreq, lnRounding) ==
  <<IF RLess(currentFreq, targetFreq) THEN RDiv(targetFreq, currentFreq)
    ELSE RDiv(currentFreq, targetFreq),
    IF currentFreq = targetFreq \/ currentFreq \notin DOMAIN lnRounding
    THEN 0 ELSE lnRounding[currentFreq]>>

DistLess_OrEqual(dist, minDist) ==
  \/ RLess(dist[1], minDist[1])
  \/ dist[1] = minDist[1] /\ dist[2] <= minDist[2]

\* dist < minDist
DistLess(dist, minDist) ==
  \/ RLess(dist[1], minDist[1])
  \/ dist[1] = minDist[1] /\ dist[2] < minDist[2]

\* dist < qLn(5.0)
LessThanLn5(dist) ==
  \/ RLess(dist[1], R(5))
  \/ dist[1] = R(5) /\ dist[2] < 0

\* the scan for the closest sample from index k on; closest = 0 is
\* found = false, minDist = max()
RECURSIVE ClosestScan(_, _, _, _, _)
ClosestScan(container, targetFreq, lnRounding, k, closest) ==
  IF k > Len(container) THEN closest
  ELSE LET dist == LnDist(container[k].key, targetFreq, lnRounding)
           minDist == LnDist(container[closest].key, targetFreq, lnRounding)
       IN ClosestScan(container, targetFreq, lnRounding, k + 1,
                      IF closest = 0 \/ DistLess(dist, minDist) THEN k
                      ELSE closest)

\* the targets that get an entry
SpotTargets(container, range, lnRounding) ==
  {p \in 1..Len(FREQ_POINT_INFOS) :
     LET targetFreq == FREQ_POINT_INFOS[p].value
         closest == ClosestScan(container, targetFreq, lnRounding, 1, 0)
     IN /\ InView(targetFreq, range)
        /\ closest # 0
        /\ LessThanLn5(LnDist(container[closest].key, targetFreq, lnRounding))}

calculateSpotNoise(datasets, range, lnRounding) ==
  LET first == FirstVisible(datasets)
      container == DataContainer(datasets[first])
      targets == IF first = 0 THEN {}
                 ELSE SpotTargets(container, range, lnRounding)
  IN [name \in {FREQ_POINT_INFOS[p].displayName : p \in targets} |->
        LET p == CHOOSE q \in targets :
                   /\ FREQ_POINT_INFOS[q].displayName = name
                   /\ \A r \in targets :
                        FREQ_POINT_INFOS[r].displayName = name => r <= q
            closest == ClosestScan(container, FREQ_POINT_INFOS[p].value,
                                   lnRounding, 1, 0)
        IN <<container[closest].key, container[closest].value>>]

SpotFreqs == {<<5, 2>>, R(40), R(50), R(1000)}

Roundings == {0 - 1, 0, 1}

\* the frequency columns of the first dataset: ascending, repeats allowed
SpotColumns ==
  {f \in SeqsOver(SpotFreqs, MaxSpotLen) :
     /\ Len(f) > 0
     /\ \A k \in 1..(Len(f) - 1) : ~RGt(f[k], f[k + 1])}

\* a dataset whose active measured curve is -120, -121, ...
SpotDataset(f, visible) ==
  [frequencyOffset |-> f, measured |-> [k \in 1..Len(f) |-> R(0 - 119 - k)],
   isVisible |-> visible]

\* one dataset, or the same followed by a visible one of one sample
SpotDatasets(f) ==
  {<<SpotDataset(f, v)>> : v \in BOOLEAN}
    \cup {<<SpotDataset(f, v), SpotDataset(<<R(10000)>>, TRUE)>> :
            v \in BOOLEAN}

SliderIndices ==
  {s \in (0..(Len(FREQ_POINTS) - 1)) \X (0..(Len(FREQ_POINTS) - 1)) :
     s[1] <= s[2]}

\* a call: datasets on a frequency column f, slider positions and one
\* rounding for each frequency of f
SpotInit ==
  /\ AppInit
  /\ spur = IdleSpur
  /\ \E f \in SpotColumns :
       \E ds \in SpotDatasets(f), s \in SliderIndices,
          rnd \in [{f[k] : k \in 1..Len(f)} -> Roundings] :
         call = [pc |-> "in", fn |-> "calculateSpotNoise", datasets |-> ds,
                 m_minFreqSliderIndex |-> s[1],
                 m_maxFreqSliderIndex |-> s[2], lnRounding |-> rnd,
                 range |-> [lower |-> NaN, upper |-> NaN],
                 m_spotNoiseData |-> <<>>]

UpdatePlotSpotNoise ==
  /\ call.pc = "in" /\ call.fn = "calculateSpotNoise"
  /\ LET range == ViewRange(call.m_minFreqSliderIndex,
                            call.m_maxFreqSliderIndex)
     IN call' = [call EXCEPT !.pc = "out", !.range = range,
                   !.m_spotNoiseData = calculateSpotNoise(call.datasets, range,
                                                          call.lnRounding)]
  /\ UNCHANGED <<appVars, spur>>

SpotNext == UpdatePlotSpotNoise

SpecSpot == SpotInit /\ [][SpotNext]_vars

(***************************************************************************)
(* The frequency-range sliders: loadData's adjustment for the first        *)
(* dataset, the two slider handlers and the x axis range of updatePlot     *)
(* (specification SpecSlider).  The state keeps the two indices, the       *)
(* number of loaded datasets, the x axis range of the last updatePlot, and *)
(* replotted: whether the last handler ended in updatePlot.  The factors   *)
(* 0.9 and 1.1 are taken exactly; the frequencies of the model are away    *)
(* from the midpoints between two steps, where their rounding could count. *)
(***************************************************************************)
X_AXIS_MAX == R(10000000)

\* std::lower_bound on FREQ_POINTS: the index of the first step >= freq
LowerBound(freq) ==
  Cardinality({k \in 1..Len(FREQ_POINTS) : RLess(FREQ_POINTS[k], freq)})

findClosestFreqStepIndex(freq) ==
  LET idx == LowerBound(freq)
  IN IF idx = 0 THEN 0
     ELSE IF idx = Len(FREQ_POINTS) THEN Len(FREQ_POINTS) - 1
     ELSE IF RLess(RAbs(RSub(At(FREQ_POINTS, idx), freq)),
                   RAbs(RSub(At(FREQ_POINTS, idx - 1), freq)))
          THEN idx
          ELSE idx - 1

\* the two indices loadData sets for a first dataset whose frequencies span
\* minFreqData..maxFreqData
AdjustSliders(minFreqData, maxFreqData) ==
  LET low == RMul(minFreqData, <<9, 10>>)
      high == RMul(maxFreqData, <<11, 10>>)
      cap == RMul(X_AXIS_MAX, R(10))
      viewMinFreq == IF RLess(X_AXIS_MIN, low) THEN low ELSE X_AXIS_MIN
      viewMax0 == IF RLess(high, cap) THEN high ELSE cap
      viewMaxFreq == IF ~RGt(viewMax0, viewMinFreq)
                     THEN RMul(viewMinFreq, R(10)) ELSE viewMax0
      min0 == findClosestFreqStepIndex(viewMinFreq)
      max0 == findClosestFreqStepIndex(viewMaxFreq)
      max1 == IF max0 < min0 THEN Min2(min0 + 1, Len(FREQ_POINTS) - 1)
              ELSE max0
      min1 == IF max0 < min0 /\ min0 > max1 THEN Max2(0, max1 - 1) ELSE min0
  IN [m_minFreqSliderIndex |-> min1, m_maxFreqSliderIndex |-> max1]

\* slip: the min slider is not held below the max slider
onMinFreqSliderChanged_NoClamp(value, minIndex, maxIndex) ==
  [index |-> value, replot |-> TRUE]

\* the new min index, and whether the handler calls updatePlot
onMinFreqSliderChanged(value, minIndex, maxIndex) ==
  IF value >= maxIndex
  THEN [index |-> Max2(0, maxIndex - 1), replot |-> FALSE]
  ELSE [index |-> value, replot |-> TRUE]

\* the new max index, and whether the handler calls updatePlot
onMaxFreqSliderChanged(value, minIndex, maxIndex) ==
  IF value <= minIndex
  THEN [index |-> Min2(Len(FREQ_POINTS) - 1, minIndex + 1), replot |-> FALSE]
  ELSE [index |-> value, replot |-> TRUE]

\* the smallest and the largest frequency of a loaded file, among 0.5 Hz,
\* 3 Hz, 1 kHz, 3 kHz, 50 kHz, 10 MHz and 100 MHz
SliderDataRanges ==
  {d \in {<<1, 2>>, R(3), R(1000), R(3000), R(50000), R(10000000),
           R(100000000)} \X
          {<<1, 2>>, R(3), R(1000), R(3000), R(50000), R(10000000),
           R(100000000)} : ~RLess(d[2], d[1])}

\* the state after construction: members m_minFreqSliderIndex = 0 and
\* m_maxFreqSliderIndex = FREQ_POINTS.size() - 1, no dataset
SliderInit ==
  /\ AppInit
  /\ spur = IdleSpur
  /\ call = [pc |-> "ui", fn |-> "sliders", datasets |-> 0,
             m_minFreqSliderIndex |-> 0,
             m_maxFreqSliderIndex |-> Len(FREQ_POINTS) - 1,
             range |-> [lower |-> NaN, upper |-> NaN], replotted |-> FALSE]

\* loadData of a file with at least one valid row, then updatePlot
SliderLoadData ==
  /\ call.fn = "sliders" /\ call.datasets < MaxSliderDatasets
  /\ \E d \in SliderDataRanges :
       LET adj == IF call.datasets + 1 = 1
                  THEN AdjustSliders(d[1], d[2])
                  ELSE [m_minFreqSliderIndex |-> call.m_minFreqSliderIndex,
                        m_maxFreqSliderIndex |-> call.m_maxFreqSliderIndex]
       IN call' = [call EXCEPT !.datasets = call.datasets + 1,
                     !.m_minFreqSliderIndex = adj.m_minFreqSliderIndex,
                     !.m_maxFreqSliderIndex = adj.m_maxFreqSliderIndex,
                     !.range = ViewRange(adj.m_minFreqSliderIndex,
                                         adj.m_maxFreqSliderIndex),
                     !.replotted = TRUE]
  /\ UNCHANGED <<appVars, spur>>

\* removeSelectedDataset: removeAt, then updatePlot
SliderRemoveDataset ==
  /\ call.fn = "sliders" /\ call.datasets > 0
  /\ call' = [call EXCEPT !.datasets = call.datasets - 1,
                !.range = ViewRange(call.m_minFreqSliderIndex,
                                    call.m_maxFreqSliderIndex),
                !.replotted = TRUE]
  /\ UNCHANGED <<appVars, spur>>

\* valueChanged(value) of the min slider: the slider moved to another value
\* of its range
OnMinFreqSliderChanged ==
  /\ call.fn = "sliders"
  /\ \E value \in 0..(Len(FREQ_POINTS) - 1) :
       /\ value # call.m_minFreqSliderIndex
       /\ LET h == onMinFreqSliderChanged(value, call.m_minFreqSliderIndex,
                                          call.m_maxFreqSliderIndex)
          IN call' = [call EXCEPT !.m_minFreqSliderIndex = h.index,
                        !.range = IF h.replot
                                  THEN ViewRange(h.index,
                                                 call.m_maxFreqSliderIndex)
                                  ELSE call.range,
                        !.replotted = h.replot]
  /\ UNCHANGED <<appVars, spur>>

\* valueChanged(value) of the max slider
OnMaxFreqSliderChanged ==
  /\ call.fn = "sliders"
  /\ \E value \in 0..(Len(FREQ_POINTS) - 1) :
       /\ value # call.m_maxFreqSliderIndex
       /\ LET h == onMaxFreqSliderChanged(value, call.m_minFreqSliderIndex,
                                          call.m_maxFreqSliderIndex)
          IN call' = [call EXCEPT !.m_maxFreqSliderIndex = h.index,
                        !.range = IF h.replot
                                  THEN ViewRange(call.m_minFreqSliderIndex,
                                                 h.index)
                                  ELSE call.range,
                        !.replotted = h.replot]
  /\ UNCHANGED <<appVars, spur>>

SliderNext ==
  \/ SliderLoadData
  \/ SliderRemoveDataset
  \/ OnMinFreqSliderChanged
  \/ OnMaxFreqSliderChanged

SpecSlider == SliderInit /\ [][SliderNext]_vars

(***************************************************************************)
(* One run of applySpurRemoval on one dataset with reference data,         *)
(* iteration by iteration (specification SpecSpur)                         *)
(***************************************************************************)
SpurRefValues == {R(0), R(5), R(10)}

SpurNaNRefValues == {R(0), R(10), NaN}

\* frequency axes: strictly ascending, and one that is not monotonic (the
\* loader does not enforce any order)
FreqPow2(n) == [k \in 1..n |-> R(2 ^ (k - 1))]

FreqZigZag(n) == [k \in 1..n |-> IF k % 2 = 1 THEN R(1) ELSE R(2)]

MeasSquares(n) == [k \in 1..n |-> R(k * k)]

\* the end-to-end scenario of the specification
ExampleFreq == [k \in 1..7 |-> R(k)]

ExampleRef == <<R(0), R(0), R(0), R(20), R(20), R(0), R(0)>>

ExampleMeas == <<R(-100), R(-100), R(-100), R(-60), R(-60), R(-100), R(-100)>>

SpurRefs ==
  SeqsOver(SpurRefValues, MaxRefLen)
    \cup {r \in SeqsOver(SpurNaNRefValues, MaxNaNRefLen) : HasNaN(r)}

SpurInputs ==
  {[frequencyOffset |-> FreqPow2(Len(r)), sourceRef |-> r,
    sourceMeas |-> MeasSquares(Len(r))] : r \in SpurRefs}
  \cup {[frequencyOffset |-> FreqZigZag(Len(r)), sourceRef |-> r,
         sourceMeas |-> MeasSquares(Len(r))] : r \in SpurRefs}
  \cup {[frequencyOffset |-> ExampleFreq, sourceRef |-> ExampleRef,
         sourceMeas |-> ExampleMeas]}

SpurInit ==
  /\ AppInit
  /\ call = IdleCall
  /\ spur \in {[IdleSpur EXCEPT !.pc = "start",
                                 !.frequencyOffset = in.frequencyOffset,
                                 !.sourceRef = in.sourceRef,
                                 !.sourceMeas = in.sourceMeas,
                                 !.processedMeas = in.sourceMeas] :
                  in \in SpurInputs}

\* if (N < 3) { data.phaseNoiseFiltered = processedMeas; continue; }
SpurTooShort ==
  /\ spur.pc = "start" /\ Len(spur.sourceRef) < 3
  /\ spur' = [spur EXCEPT !.pc = "done",
                          !.phaseNoiseFiltered = spur.processedMeas]
  /\ UNCHANGED <<appVars, call>>

\* baseline = rollingMedian(sourceRef, 21) and the isSpur marks
SpurMark ==
  /\ spur.pc = "start" /\ Len(spur.sourceRef) >= 3
  /\ \E b \in rollingMedian(spur.sourceRef, DEFAULT_SPUR_WINDOW_SIZE) :
       spur' = [spur EXCEPT !.pc = "pass1", !.baseline = b,
                            !.isSpur = SpurMarks(spur.sourceRef, b),
                            !.i = 0]
  /\ UNCHANGED <<appVars, call>>

\* one iteration of the while loop of Method 1
Pass1Step ==
  /\ spur.pc = "pass1" /\ spur.i < Len(spur.sourceRef)
  /\ LET s == Pass1Iter(spur.frequencyOffset, spur.isSpur,
                        spur.processedMeas, spur.i)
     IN spur' = [spur EXCEPT !.i = s.i, !.processedMeas = s.meas]
  /\ UNCHANGED <<appVars, call>>

\* Method 1 over: finalMeas = processedMeas; i = 1;
Pass1End ==
  /\ spur.pc = "pass1" /\ spur.i >= Len(spur.sourceRef)
  /\ spur' = [spur EXCEPT !.pc = "pass2", !.finalMeas = spur.processedMeas,
                          !.i = 1]
  /\ UNCHANGED <<appVars, call>>

\* one iteration of the while loop of Method 2
Pass2Step ==
  /\ spur.pc = "pass2" /\ spur.i < Len(spur.sourceRef) - 1
  /\ LET s == Pass2Iter(spur.frequencyOffset, spur.sourceRef,
                        spur.finalMeas, spur.i)
     IN spur' = [spur EXCEPT !.i = s.i, !.finalMeas = s.meas,
                             !.edges = spur.edges \cup s.edges]
  /\ UNCHANGED <<appVars, call>>

\* Method 2 over: data.phaseNoiseFiltered = finalMeas;
Pass2End ==
  /\ spur.pc = "pass2" /\ spur.i >= Len(spur.sourceRef) - 1
  /\ spur' = [spur EXCEPT !.pc = "done",
                          !.phaseNoiseFiltered = spur.finalMeas]
  /\ UNCHANGED <<appVars, call>>

SpurNext ==
  SpurTooShort \/ SpurMark \/ Pass1Step \/ Pass1End \/ Pass2Step \/ Pass2End

SpecSpur == SpurInit /\ [][SpurNext]_vars

\* the run is sequential code: whenever a step of it can be taken, the
\* thread takes it
SpecSpurFair == SpecSpur /\ WF_vars(SpurNext)

(***************************************************************************)
(* One run of applySpurRemoval on doubles, on one dataset with reference   *)
(* data and strictly ascending frequencies (specification SpecSpurRounded) *)
(***************************************************************************)
SpurRoundedInit ==
  /\ AppInit
  /\ spur = IdleSpur
  /\ \E n \in 3..MaxSpurRoundedLen :
       \E f \in [1..n -> {R(1), R(12), R(13), R(14)}],
          r \in [1..n -> {R(0), R(20)}],
          m \in [1..n -> {R(-5), R(-3), <<-5, 8>>, R(0)}] :
         /\ \A k \in 1..(n - 1) : RLess(f[k], f[k + 1])
         /\ call = [pc |-> "in", fn |-> "applySpurRemoval",
                    frequencyOffset |-> f, sourceRef |-> r, sourceMeas |-> m,
                    phaseNoiseFiltered |-> <<>>]

\* the body of the dataset loop of applySpurRemoval for N >= 3
CallRemoveSpursRounded ==
  /\ call.pc = "in" /\ call.fn = "applySpurRemoval"
  /\ \E b \in rollingMedian(call.sourceRef, DEFAULT_SPUR_WINDOW_SIZE) :
       call' = [call EXCEPT !.pc = "out",
                  !.phaseNoiseFiltered =
                     RemoveSpursRounded(call.frequencyOffset, call.sourceRef,
                                        call.sourceMeas, b)]
  /\ UNCHANGED <<appVars, spur>>

SpurRoundedNext == CallRemoveSpursRounded

SpecSpurRounded == SpurRoundedInit /\ [][SpurRoundedNext]_vars

(***************************************************************************)
(* The application: handlers of PhaseNoiseAnalyzerApp (specification Spec) *)
(***************************************************************************)
\* what loadData parses out of a file: the rows with a positive frequency.
\* The files with reference data have a reference value in every row;
\* references with missing (NaN) rows are run through the passes in SpecSpur.
NoRef(n) == [k \in 1..n |-> NaN]

Files ==
  { [frequencyOffset |-> ExampleFreq, phaseNoise |-> ExampleMeas,
     referenceNoise |-> ExampleRef, hasReferenceData |-> TRUE],
    [frequencyOffset |-> FreqPow2(5), phaseNoise |-> MeasSquares(5),
     referenceNoise |-> <<R(0), R(0), R(10), R(10), R(10)>>,
     hasReferenceData |-> TRUE],
    [frequencyOffset |-> FreqPow2(4), phaseNoise |-> MeasSquares(4),
     referenceNoise |-> NoRef(4), hasReferenceData |-> FALSE],
    [frequencyOffset |-> <<R(0), R(1), NaN, R(2), R(-1)>>,
     phaseNoise |-> <<R(7), R(1), R(7), R(4), R(7)>>,
     referenceNoise |-> <<R(5), R(0), R(5), R(10), R(5)>>,
     hasReferenceData |-> TRUE],
    [frequencyOffset |-> <<R(0), NaN>>, phaseNoise |-> <<R(1), R(1)>>,
     referenceNoise |-> NoRef(2), hasReferenceData |-> FALSE] }

\* slip: every parsed row is kept
ValidRows_All(file) == [k \in 1..Len(file.frequencyOffset) |-> k]

\* the rows loadData appends: "if (freq > 0)"
ValidRows(file) ==
  SelectSeq([k \in 1..Len(file.frequencyOffset) |-> k],
            LAMBDA k : RGt(file.frequencyOffset[k], R(0)))

\* the entries of a column at the given rows
Column(column, rows) == [i \in 1..Len(rows) |-> column[rows[i]]]

\* newDataset of loadData, with the filtered arrays initialised
NewDataset(file) ==
  [frequencyOffset |-> Column(file.frequencyOffset, ValidRows(file)),
   phaseNoise |-> Column(file.phaseNoise, ValidRows(file)),
   referenceNoise |-> Column(file.referenceNoise, ValidRows(file)),
   phaseNoiseFiltered |-> Column(file.phaseNoise, ValidRows(file)),
   referenceNoiseFiltered |-> Column(file.referenceNoise, ValidRows(file)),
   hasReferenceData |-> file.hasReferenceData,
   sourceMeas |-> <<>>]

\* loadData: nothing happens for a file without a valid row, otherwise the
\* dataset is appended and the plot updated
loadData(datasets, file, filteringEnabled, spurRemovalEnabled) ==
  IF Len(NewDataset(file).frequencyOffset) = 0 THEN {datasets}
  ELSE updatePlot(Append(datasets, NewDataset(file)),
                  filteringEnabled, spurRemovalEnabled)

\* the values the spin box accepts (setRange): the small ones and the two
\* largest
SpinInputs ==
  (MIN_WINDOW_SIZE..Min2(MaxSpinInput, MAX_WINDOW_SIZE))
    \cup {MAX_WINDOW_SIZE - 1, MAX_WINDOW_SIZE}

Senders == {"checkbox", "action"}

Init ==
  /\ AppInit
  /\ call = IdleCall
  /\ spur = IdleSpur

\* onOpenFile with one file chosen: the flags are reset, un-checking a
\* checked check box runs its toggle slot (an updatePlot), then loadData
OnOpenFile ==
  \E file \in Files :
    /\ Len(NewDataset(file).frequencyOffset) = 0
         \/ Len(m_datasets) < MaxDatasets
    /\ LET Plot(ds) == updatePlot(ds, FALSE, FALSE)
           Load(ds) == loadData(ds, file, FALSE, FALSE)
           afterFilterBox == IF m_filteringEnabled THEN Plot(m_datasets)
                             ELSE {m_datasets}
           afterSpurBox == IF m_spurRemovalEnabled
                           THEN UNION {Plot(ds) : ds \in afterFilterBox}
                           ELSE afterFilterBox
       IN m_datasets' \in UNION {Load(ds) : ds \in afterSpurBox}
    /\ m_filteringEnabled' = FALSE
    /\ m_spurRemovalEnabled' = FALSE
    /\ filterControlsEnabled' =
         IF m_filteringEnabled THEN FALSE ELSE filterControlsEnabled
    /\ UNCHANGED <<m_filterTypeCombo, m_filterWindowSpin, call, spur>>

\* toggleDataFiltering(checked) from the check box, or from a menu/toolbar
\* action: the action's slot checks the check box, whose stateChanged runs
\* the slot a second time, nested
ToggleDataFiltering ==
  \E checked \in BOOLEAN, sender \in Senders :
    /\ checked # m_filteringEnabled
    /\ LET Replot(ds) == RefilterOrPlot(ds, checked, m_spurRemovalEnabled,
                                        m_filterTypeCombo, m_filterWindowSpin)
       IN m_datasets' \in
            IF sender = "checkbox" THEN Replot(m_datasets)
            ELSE UNION {Replot(ds) : ds \in Replot(m_datasets)}
    /\ m_filteringEnabled' = checked
    /\ filterControlsEnabled' = checked
    /\ UNCHANGED <<m_spurRemovalEnabled, m_filterTypeCombo,
                   m_filterWindowSpin, call, spur>>

\* slip: the request is not checked against the reference data
ToggleSpurRemoval_NoCheck ==
  \E checked \in BOOLEAN, sender \in Senders :
    /\ checked # m_spurRemovalEnabled
    /\ LET Plot(ds) == updatePlot(ds, m_filteringEnabled, checked)
       IN /\ m_spurRemovalEnabled' = checked
          /\ m_datasets' \in
               IF sender = "checkbox" THEN Plot(m_datasets)
               ELSE UNION {Plot(ds) : ds \in Plot(m_datasets)}
    /\ UNCHANGED <<m_filteringEnabled, m_filterTypeCombo, m_filterWindowSpin,
                   filterControlsEnabled, call, spur>>

\* toggleSpurRemoval(checked), same two senders
ToggleSpurRemoval ==
  \E checked \in BOOLEAN, sender \in Senders :
    /\ checked # m_spurRemovalEnabled
    /\ LET anyHasRef == \E k \in 1..Len(m_datasets) :
                          m_datasets[k].hasReferenceData
           Plot(ds) == updatePlot(ds, m_filteringEnabled, checked)
           PlotOff(ds) == updatePlot(ds, m_filteringEnabled, FALSE)
       IN IF ~anyHasRef /\ checked
          THEN \* rejected; un-checking the check box that was just checked
               \* runs the slot again with checked = false
               /\ m_spurRemovalEnabled' = FALSE
               /\ m_datasets' \in IF sender = "checkbox"
                                   THEN PlotOff(m_datasets)
                                   ELSE {m_datasets}
          ELSE /\ m_spurRemovalEnabled' = checked
               /\ m_datasets' \in
                    IF sender = "checkbox" THEN Plot(m_datasets)
                    ELSE UNION {Plot(ds) : ds \in Plot(m_datasets)}
    /\ UNCHANGED <<m_filteringEnabled, m_filterTypeCombo, m_filterWindowSpin,
                   filterControlsEnabled, call, spur>>

\* currentIndexChanged of the filter-type combo box -> applyDataFiltering
OnFilterTypeChanged ==
  \E filterType \in FilterTypes :
    /\ filterControlsEnabled
    /\ filterType # m_filterTypeCombo
    /\ m_filterTypeCombo' = filterType
    /\ m_datasets' \in applyDataFiltering(m_datasets, m_filteringEnabled,
                                           m_spurRemovalEnabled, filterType,
                                           m_filterWindowSpin)
    /\ UNCHANGED <<m_filteringEnabled, m_spurRemovalEnabled,
                   m_filterWindowSpin, filterControlsEnabled, call, spur>>

\* slip: an even value is left in the spin box
forceOddWindowSize_EvenKept(value) == value

\* forceOddWindowSize(value): an even value is replaced by value + 1
forceOddWindowSize(value) == IF value % 2 = 0 THEN value + 1 ELSE value

\* valueChanged of the window spin box: forceOddWindowSize, then
\* applyDataFiltering, which reads the spin box
OnFilterWindowChanged ==
  \E value \in SpinInputs :
    /\ filterControlsEnabled
    /\ value # m_filterWindowSpin
    /\ m_filterWindowSpin' = forceOddWindowSize(value)
    /\ m_datasets' \in applyDataFiltering(m_datasets, m_filteringEnabled,
                                           m_spurRemovalEnabled,
                                           m_filterTypeCombo,
                                           forceOddWindowSize(value))
    /\ UNCHANGED <<m_filteringEnabled, m_spurRemovalEnabled,
                   m_filterTypeCombo, filterControlsEnabled, call, spur>>

\* toggleSpotNoise: one of the handlers that only redraw (updatePlot)
ToggleSpotNoise ==
  /\ m_datasets' \in updatePlot(m_datasets, m_filteringEnabled,
                                 m_spurRemovalEnabled)
  /\ UNCHANGED <<m_filteringEnabled, m_spurRemovalEnabled, m_filterTypeCombo,
                 m_filterWindowSpin, filterControlsEnabled, call, spur>>

\* removeSelectedDataset: removeAt(indexToRemove), then updatePlot
RemoveSelectedDataset ==
  \E indexToRemove \in 0..(Len(m_datasets) - 1) :
    /\ m_datasets' \in
         updatePlot([k \in 1..(Len(m_datasets) - 1) |->
                       IF k - 1 < indexToRemove THEN m_datasets[k]
                       ELSE m_datasets[k + 1]],
                    m_filteringEnabled, m_spurRemovalEnabled)
    /\ UNCHANGED <<m_filteringEnabled, m_spurRemovalEnabled,
                   m_filterTypeCombo, m_filterWindowSpin,
                   filterControlsEnabled, call, spur>>

Next ==
  \/ OnOpenFile
  \/ ToggleDataFiltering
  \/ ToggleSpurRemoval
  \/ OnFilterTypeChanged
  \/ OnFilterWindowChanged
  \/ ToggleSpotNoise
  \/ RemoveSelectedDataset

Spec == Init /\ [][Next]_vars

(***************************************************************************)
(* Properties.  The operators of this section are written from the         *)
(* statements they check, not from the code.                               *)
(***************************************************************************)
SetMax(S) == CHOOSE x \in S : \A y \in S : y <= x

SetMin(S) == CHOOSE x \in S : \A y \in S : x <= y

\* a - b > t with both operands defined
DefinedAndAbove(a, b, t) ==
  ~IsNaN(a) /\ ~IsNaN(b) /\ RLess(t, RSub(a, b))

\* a - b <= t with both operands defined
DefinedAndAtMost(a, b, t) ==
  ~IsNaN(a) /\ ~IsNaN(b) /\ ~RLess(t, RSub(a, b))

\* the interpolator: y1 + (y2 - y1)(x - x1)/(x2 - x1), y1 when x2 = x1
Interpolated(x1, y1, x2, y2, x) ==
  IF x1 = x2 THEN y1
  ELSE RAdd(y1, RDiv(RMul(RSub(y2, y1), RSub(x, x1)), RSub(x2, x1)))

SpurN == Len(spur.sourceRef)

SpurRan == spur.pc \in {"pass1", "pass2", "done"} /\ SpurN >= 3

\* ---- C3 ----------------------------------------------------------------
NoBaselineSpurAtMost ==
  \A k \in 1..SpurN :
    DefinedAndAtMost(spur.sourceRef[k], spur.baseline[k], SPUR_THRESHOLD)

NoBaselineSpur ==
  \A k \in 1..SpurN :
    ~DefinedAndAbove(spur.sourceRef[k], spur.baseline[k], SPUR_THRESHOLD)

NoRisingEdge ==
  \A k \in 1..(SpurN - 2) :
    ~DefinedAndAbove(At(spur.sourceRef, k), At(spur.sourceRef, k - 1),
                     SPUR_THRESHOLD)

\* C3 as stated: with n >= 3 and reference - baseline <= threshold at every
\* index, the array the two passes output equals the input measured array.
C3_NoSpurNoOp_AsStated ==
  (spur.pc = "done" /\ SpurN >= 3 /\ NoBaselineSpurAtMost)
    => spur.phaseNoiseFiltered = spur.sourceMeas

\* C3 (amended): with n >= 3, no sample a baseline spur and no rising edge
\* reference[i] - reference[i-1] > threshold at any index 1..n-2, the array
\* the two passes output equals the input measured array element-wise.
C3_NoSpurNoEdgeNoOp ==
  (spur.pc = "done" /\ SpurN >= 3 /\ NoBaselineSpur /\ NoRisingEdge)
    => /\ Len(spur.phaseNoiseFiltered) = Len(spur.sourceMeas)
       /\ \A k \in 1..SpurN : spur.phaseNoiseFiltered[k] = spur.sourceMeas[k]

\* a finished run on a reference that is not flat, without spur or rising edge
C3_Witness ==
  /\ spur.pc = "done" /\ SpurN >= 3 /\ NoBaselineSpur /\ NoRisingEdge
  /\ \E k \in 2..SpurN : spur.sourceRef[k] # spur.sourceRef[1]
  /\ spur.phaseNoiseFiltered = spur.sourceMeas

\* ---- C4 ----------------------------------------------------------------
\* the 21 values reference[clamp(i + j, 0, n-1)], j = -10..10 (i 0-based)
ClampedWindow21(ref, i) ==
  [k \in 1..21 |->
     LET idx == i + k - 11
     IN At(ref, IF idx < 0 THEN 0 ELSE IF idx > Len(ref) - 1 THEN Len(ref) - 1
                ELSE idx)]

\* v is the middle of the 21 sorted values: at most 10 are smaller and at
\* most 10 are larger
IsMedian21(v, win) ==
  /\ \E k \in 1..21 : win[k] = v
  /\ Cardinality({k \in 1..21 : RLess(win[k], v)}) <= 10
  /\ Cardinality({k \in 1..21 : RLess(v, win[k])}) <= 10

\* the maximal spur run around the spur index i (0-based)
RunStart(i) ==
  SetMin({a \in 0..i : \A b \in a..i : At(spur.isSpur, b)})

RunEnd(i) ==
  SetMax({a \in i..(SpurN - 1) : \A b \in i..a : At(spur.isSpur, b)})

LeftAnchor(i) ==
  LET c == {l \in 0..(RunStart(i) - 1) : ~At(spur.isSpur, l)}
  IN IF c = {} THEN 0 ELSE SetMax(c)

RightAnchor(i) ==
  LET c == {r \in (RunEnd(i) + 1)..(SpurN - 1) : ~At(spur.isSpur, r)}
  IN IF c = {} THEN SpurN - 1 ELSE SetMin(c)

Pass1Expected(i) ==
  IF ~At(spur.isSpur, i) THEN At(spur.sourceMeas, i)
  ELSE LET l == LeftAnchor(i)
           r == RightAnchor(i)
       IN IF l # r /\ At(spur.frequencyOffset, l) # At(spur.frequencyOffset, r)
          THEN Interpolated(At(spur.frequencyOffset, l), At(spur.sourceMeas, l),
                            At(spur.frequencyOffset, r), At(spur.sourceMeas, r),
                            At(spur.frequencyOffset, i))
          ELSE At(spur.sourceMeas, l)

\* C4: after pass 1, sample i is marked exactly when reference and baseline
\* are defined and reference - baseline > threshold (baseline the
\* edge-clamped median over 21 samples); every sample of a maximal spur run
\* is the interpolation at its own frequency between the nearest non-spur
\* neighbours (0 / n-1 when none), or measured[left] when the anchors
\* coincide or share a frequency; other samples are unchanged; the
\* end-to-end scenario yields -100 at indices 3 and 4.
C4_Pass1 ==
  (spur.pc = "pass2" /\ SpurN >= 3) =>
    /\ \A k \in 1..SpurN :
         spur.isSpur[k] <=> DefinedAndAbove(spur.sourceRef[k],
                                            spur.baseline[k], SPUR_THRESHOLD)
    /\ ~HasNaN(spur.sourceRef) =>
         \A k \in 1..SpurN :
           IsMedian21(spur.baseline[k], ClampedWindow21(spur.sourceRef, k - 1))
    /\ \A k \in 1..SpurN : spur.processedMeas[k] = Pass1Expected(k - 1)
    /\ (spur.frequencyOffset = ExampleFreq /\ spur.sourceRef = ExampleRef
          /\ spur.sourceMeas = ExampleMeas)
         => /\ At(spur.processedMeas, 3) = R(-100)
            /\ At(spur.processedMeas, 4) = R(-100)

\* pass 1 finished on the end-to-end scenario and replaced the two samples
C4_Witness ==
  /\ spur.pc = "pass2"
  /\ spur.frequencyOffset = ExampleFreq /\ spur.sourceRef = ExampleRef
  /\ spur.sourceMeas = ExampleMeas
  /\ At(spur.isSpur, 3) /\ At(spur.isSpur, 4)
  /\ At(spur.processedMeas, 3) # At(spur.sourceMeas, 3)

\* ---- C5 / C6 -----------------------------------------------------------
RisingAt(i) ==
  DefinedAndAbove(At(spur.sourceRef, i), At(spur.sourceRef, i - 1), SPUR_THRESHOLD)

FallingAt(j) ==
  DefinedAndAbove(At(spur.sourceRef, j - 1), At(spur.sourceRef, j), SPUR_THRESHOLD)

FallingAfter(start) == {j \in (start + 1)..(SpurN - 1) : FallingAt(j)}

ScanningPass2 ==
  spur.pc = "pass2" /\ spur.i >= 1 /\ spur.i <= SpurN - 2

\* C5: in pass 2, a rising edge at start = i whose first later falling edge
\* is at j <= n-1 replaces samples start..j-1 by the interpolation between
\* (freq[start-1], processed[start-1]) and (freq[j], processed[j]), leaves
\* every other sample (start-1 and j included) unchanged, and resumes the
\* scan at i = j.
C5_MatchedEdge ==
  [][ (ScanningPass2 /\ RisingAt(spur.i) /\ FallingAfter(spur.i) # {}) =>
        LET start == spur.i
            j == SetMin(FallingAfter(spur.i))
        IN /\ spur'.pc = "pass2"
           /\ spur'.i = j
           /\ \A k \in 0..(SpurN - 1) :
                At(spur'.finalMeas, k) =
                  IF k >= start /\ k < j
                  THEN Interpolated(At(spur.frequencyOffset, start - 1),
                                    At(spur.finalMeas, start - 1),
                                    At(spur.frequencyOffset, j),
                                    At(spur.finalMeas, j),
                                    At(spur.frequencyOffset, k))
                  ELSE At(spur.finalMeas, k) ]_vars

\* the scan stands at a falling edge it has just matched, and the matched
\* region was rewritten
C5_Witness ==
  /\ spur.pc = "pass2"
  /\ <<"falling", spur.i>> \in spur.edges
  /\ spur.finalMeas # spur.processedMeas

\* C6: in pass 2, a rising edge at start with no falling edge at any index
\* start+1..n-1 sets every sample start..n-1 to processed[start-1], leaves
\* the samples below start unchanged and ends the scan.
C6_UnmatchedEdge ==
  [][ (ScanningPass2 /\ RisingAt(spur.i) /\ FallingAfter(spur.i) = {}) =>
        /\ spur'.pc = "pass2"
        /\ ~(spur'.i < SpurN - 1)
        /\ \A k \in 0..(SpurN - 1) :
             At(spur'.finalMeas, k) =
               IF k >= spur.i THEN At(spur.finalMeas, spur.i - 1)
               ELSE At(spur.finalMeas, k) ]_vars

\* the scan has ended on an unmatched rising edge that changed the tail
C6_Witness ==
  /\ spur.pc = "pass2"
  /\ ~(spur.i < SpurN - 1)
  /\ \E e \in spur.edges :
       /\ e[1] = "rising"
       /\ FallingAfter(e[2]) = {}
       /\ \A k \in e[2]..(SpurN - 1) :
            At(spur.finalMeas, k) = At(spur.finalMeas, e[2] - 1)
  /\ spur.finalMeas # spur.processedMeas

\* ---- C8 ----------------------------------------------------------------
\* C8: an index whose reference is NaN is never marked spur in pass 1, and
\* pass 2 detects no rising or falling edge at an index i with reference[i]
\* or reference[i-1] NaN.
C8_NaNNeverClassified ==
  SpurRan =>
    /\ \A k \in 1..SpurN : IsNaN(spur.sourceRef[k]) => ~spur.isSpur[k]
    /\ \A e \in spur.edges :
         /\ ~IsNaN(At(spur.sourceRef, e[2]))
         /\ ~IsNaN(At(spur.sourceRef, e[2] - 1))

\* a finished run on a reference with a NaN sample in which an edge was
\* detected at another index
C8_Witness ==
  /\ spur.pc = "done" /\ SpurN >= 3
  /\ HasNaN(spur.sourceRef)
  /\ spur.edges # {}

\* ---- C9 / C10 ----------------------------------------------------------
SGReturned == call.pc = "out" /\ call.fn = "savitzkyGolay"

\* the first and the last h samples of the result are those of the input
EdgesVerbatim(h) ==
  /\ Len(call.result) = Len(call.data)
  /\ \A k \in 0..(Len(call.data) - 1) :
       (k < h \/ k >= Len(call.data) - h)
         => At(call.result, k) = At(call.data, k)

\* half the length of the kernel applied for a requested odd window w >= 5
KernelHalf(w) == IF w = 5 THEN 2 ELSE IF w = 7 THEN 3 ELSE 5

\* C9 as stated: for every odd window w in 5..51 the first floor(w/2) and
\* the last floor(w/2) output samples equal the input samples.
C9_Boundary_AsStated ==
  (SGReturned /\ call.windowSize >= 5 /\ call.windowSize <= 51
     /\ call.windowSize % 2 = 1)
    => EdgesVerbatim(call.windowSize \div 2)

\* C9 (amended): for every odd window w in 5..51 and every input, the first
\* and the last h output samples equal the input samples, h being half the
\* length of the kernel applied: 2 for w = 5, 3 for w = 7, 5 for w >= 9.
C9_BoundaryOfKernel ==
  (SGReturned /\ call.windowSize >= 5 /\ call.windowSize <= 51
     /\ call.windowSize % 2 = 1)
    => EdgesVerbatim(KernelHalf(call.windowSize))

\* a call with window 13 or more on an input long enough to be smoothed
C9_Witness ==
  /\ SGReturned
  /\ call.windowSize >= 13 /\ call.windowSize % 2 = 1
  /\ Len(call.data) >= call.windowSize
  /\ call.result # call.data
  /\ EdgesVerbatim(5)

Kernel11 == <<-36, 9, 44, 69, 84, 89, 84, 69, 44, 9, -36>>

\* sum over j = -5..5 of Kernel11[j + 5] * d[i + j], i 0-based
RECURSIVE Dot11(_, _, _)
Dot11(d, i, j) ==
  IF j > 5 THEN R(0)
  ELSE RAdd(RMul(R(At(Kernel11, j + 5)), At(d, i + j)), Dot11(d, i, j + 1))

\* the window-11 kernel applied to d (at least 11 samples): the interior is
\* the convolution divided by 429, five samples at each end are verbatim
Window11Applied(d) ==
  [k \in 1..Len(d) |->
     IF k - 1 < 5 \/ k - 1 >= Len(d) - 5 THEN d[k]
     ELSE RDiv(Dot11(d, k - 1, -5), R(429))]

OddWindow == IF call.windowSize % 2 = 0 THEN call.windowSize + 1
             ELSE call.windowSize

\* C10 as stated: for every window that is >= 9 after oddification and every
\* input, the result is the result of window 11 on the same input.
C10_Snap_AsStated ==
  (SGReturned /\ OddWindow >= 9 /\ OddWindow <= 51)
    => call.result = savitzkyGolay(call.data, 11, DefaultPolyOrder)

\* C10 (amended): for every window w that is >= 9 after oddification, an
\* input with at least w samples gets the window-11 kernel
\* [-36,9,44,69,84,89,84,69,44,9,-36]/429 whatever w is, i.e. the result of
\* window 11; an input with fewer than w samples is returned unchanged.
C10_SnapWhenLongEnough ==
  (SGReturned /\ OddWindow >= 9 /\ OddWindow <= 51)
    => IF Len(call.data) >= OddWindow
       THEN call.result = Window11Applied(call.data)
       ELSE call.result = call.data

\* a call with a window above 15 on an input long enough to be smoothed
C10_Witness ==
  /\ SGReturned
  /\ OddWindow > 15
  /\ Len(call.data) >= OddWindow
  /\ call.result # call.data
  /\ call.result = Window11Applied(call.data)

\* ---- C1 / C2 / C7 ------------------------------------------------------
Datasets == {m_datasets[k] : k \in 1..Len(m_datasets)}

\* the source channel of dataset d under the current configuration: the
\* raw measured array, or filter(raw measured) when filtering is on
SourceChannel(d) ==
  IF m_filteringEnabled
  THEN FilterBy(m_filterTypeCombo, d.phaseNoise, m_filterWindowSpin)
  ELSE {d.phaseNoise}

\* C1: every spur-removal run takes its measured source from the raw
\* measured array when filtering is off and from filter(raw measured) when
\* filtering is on, never from the result of an earlier run.
C1_SpurSourceIsRawOrFiltered ==
  \A d \in Datasets :
    d.sourceMeas # <<>> => d.sourceMeas \in SourceChannel(d)

\* C2: whenever spur removal is disabled, the active measured curve of
\* every dataset is the raw measured array (filtering off) or
\* filter(raw measured, current kind, current window) (filtering on).
C2_NoSpurEffectWhenDisabled ==
  ~m_spurRemovalEnabled =>
    \A d \in Datasets :
      ActiveMeasured(d, m_filteringEnabled, m_spurRemovalEnabled)
        \in SourceChannel(d)

PassThroughDataset(d) == ~d.hasReferenceData \/ Len(d.frequencyOffset) < 3

\* C7: with spur removal enabled, the measured array output for a dataset
\* without reference channel or with fewer than 3 samples is the source
\* measured array (raw when filtering is off, filtered when it is on).
C7_PassThrough ==
  m_spurRemovalEnabled =>
    \A d \in Datasets :
      PassThroughDataset(d) =>
        ActiveMeasured(d, m_filteringEnabled, m_spurRemovalEnabled)
          \in SourceChannel(d)

\* spur removal and filtering are on, a dataset without reference and a
\* short dataset with reference are loaded, both changed by the filter
C7_Witness ==
  /\ m_spurRemovalEnabled /\ m_filteringEnabled
  /\ \E d \in Datasets :
       ~d.hasReferenceData /\ d.phaseNoiseFiltered # d.phaseNoise
  /\ \E d \in Datasets :
       /\ d.hasReferenceData /\ Len(d.frequencyOffset) < 3
       /\ d.sourceMeas # <<>>
       /\ d.phaseNoiseFiltered # d.phaseNoise

\* ---- C11 --------------------------------------------------------------
Kernel5 == <<-3, 12, 17, 12, -3>>

Kernel7 == <<-2, 3, 6, 7, 6, 3, -2>>

\* sum over j = from..half of kernel[j + half] * d[i + j], i 0-based,
\* half = half the kernel length
RECURSIVE KernelDot(_, _, _, _)
KernelDot(kernel, d, i, j) ==
  LET half == Len(kernel) \div 2
  IN IF j > half THEN R(0)
     ELSE RAdd(RMul(R(At(kernel, j + half)), At(d, i + j)),
               KernelDot(kernel, d, i, j + 1))

\* every output sample at an index half..n-1-half is the kernel sum around
\* it divided by divisor
InteriorIs(kernel, divisor) ==
  LET half == Len(kernel) \div 2
  IN \A i \in half..(Len(call.data) - 1 - half) :
       At(call.result, i)
         = RDiv(KernelDot(kernel, call.data, i, -half), R(divisor))

\* C11: a Savitzky-Golay call that smooths (odd window w >= 5, at least w
\* samples) uses [-3,12,17,12,-3]/35 for w = 5, [-2,3,6,7,6,3,-2]/21 for
\* w = 7 and the 11-point kernel /429 above; every output sample at an index
\* i with half <= i <= n-1-half, half being half the kernel length, equals
\* the sum over j in -half..half of kernel[j+half]*data[i+j] divided by the
\* divisor.
C11_InteriorValues ==
  (SGReturned /\ OddWindow >= 5 /\ Len(call.data) >= OddWindow)
    => /\ Len(call.result) = Len(call.data)
       /\ OddWindow = 5 => InteriorIs(Kernel5, 35)
       /\ OddWindow = 7 => InteriorIs(Kernel7, 21)
       /\ OddWindow >= 9 => InteriorIs(Kernel11, 429)

\* a window-7 call on a ramp with interior samples, which it changes
C11_Witness ==
  /\ SGReturned /\ OddWindow = 7
  /\ Len(call.data) >= 9
  /\ \E i \in 3..(Len(call.data) - 4) :
       At(call.result, i) # At(call.data, i)
  /\ InteriorIs(Kernel7, 21)

\* ---- C12 --------------------------------------------------------------
Returned(fn) == call.pc = "out" /\ call.fn = fn

\* C12: an even window is incremented by one first; movingAverage and
\* medianFilter then return the input unchanged when the window is < 3 or
\* the input is empty, savitzkyGolay when the window is < 5.  Window 2 is
\* filtered as window 3, window 4 is Savitzky-Golay-filtered as window 5,
\* and windows 1, 0 and negative windows give the input back.
C12_IdentityFallback ==
  /\ (Returned("movingAverage") \/ Returned("medianFilter"))
       => /\ (OddWindow < 3 \/ Len(call.data) = 0) => call.result = call.data
          /\ call.windowSize <= 1 => call.result = call.data
  /\ Returned("savitzkyGolay")
       => /\ OddWindow < 5 => call.result = call.data
          /\ call.windowSize <= 3 => call.result = call.data
          /\ call.windowSize = 4
               => call.result = savitzkyGolay(call.data, 5, DefaultPolyOrder)
  /\ (Returned("movingAverage") /\ call.windowSize = 2)
       => call.result = movingAverage(call.data, 3)
  /\ (Returned("medianFilter") /\ call.windowSize = 2)
       => call.result \in medianFilter(call.data, 3)

\* a moving average with window 2 that changed its input
C12_Witness ==
  /\ Returned("movingAverage") /\ call.windowSize = 2
  /\ call.result # call.data
  /\ call.result = movingAverage(call.data, 3)

\* ---- C13 --------------------------------------------------------------
\* C13: for every filter kind, every window (zero, negative and larger than
\* the data included) and every input length n >= 0 the call returns, the
\* result has exactly n samples, and every index it reads or writes in the
\* input and output arrays lies in 0..n-1.
C13_NeverFails ==
  /\ (call.pc = "in" /\ call.fn = "medianFilter")
       => medianFilter(call.data, call.windowSize) # {}
  /\ (call.pc = "out" /\ call.fn \in FilterNames)
       => /\ Len(call.result) = Len(call.data)
          /\ call.touched \subseteq 0..(Len(call.data) - 1)

\* a median filter with the largest window on two samples, every sample
\* read and written
C13_Witness ==
  /\ Returned("medianFilter")
  /\ call.windowSize = MAX_WINDOW_SIZE
  /\ Len(call.data) = 2
  /\ call.touched = {0, 1}
  /\ Len(call.result) = 2

\* ---- C14 --------------------------------------------------------------
\* d[lo] + ... + d[hi], 0-based
RECURSIVE SumRange(_, _, _)
SumRange(d, lo, hi) ==
  IF lo > hi THEN R(0) ELSE RAdd(At(d, lo), SumRange(d, lo + 1, hi))

\* the mean of d over i-half..i+half clipped to the array
TruncatedMean(d, i, half) ==
  LET lo == IF i - half < 0 THEN 0 ELSE i - half
      hi == IF i + half > Len(d) - 1 THEN Len(d) - 1 ELSE i + half
  IN RDiv(SumRange(d, lo, hi), R(hi - lo + 1))

Lt(a, b) == a[1] * b[2] < b[1] * a[2]

\* the w = 2*half+1 values d[clamp(i+j, 0, n-1)], j = -half..half
ReplicatedWindow(d, i, half) ==
  [k \in 1..(2 * half + 1) |->
     LET p == i + k - 1 - half
     IN IF p < 0 THEN d[1] ELSE IF p > Len(d) - 1 THEN d[Len(d)] ELSE d[p + 1]]

\* v stands at position pos (0-based) of the ascending sort of win: fewer
\* than pos + 1 values are below v and at least pos + 1 are at most v
AtSortedPosition(v, win, pos) ==
  /\ \E k \in 1..Len(win) : win[k] = v
  /\ Cardinality({k \in 1..Len(win) : Lt(win[k], v)}) <= pos
  /\ Cardinality({k \in 1..Len(win) : ~Lt(v, win[k])}) >= pos + 1

\* C15: for a window w >= 3 (odd, an even one incremented first), with
\* half = floor(w/2), every output sample i of medianFilter is the element
\* at position half of the ascending sort of the w values
\* data[clamp(i+j, 0, n-1)], j in -half..half (edge replication).
C15_MedianEdgeReplication ==
  (Returned("medianFilter") /\ OddWindow >= 3)
    => /\ Len(call.result) = Len(call.data)
       /\ \A i \in 0..(Len(call.data) - 1) :
            AtSortedPosition(At(call.result, i),
                             ReplicatedWindow(call.data, i, OddWindow \div 2),
                             OddWindow \div 2)

\* window 3 on an array that starts with a peak: the replicated first sample
\* keeps the peak at index 0 while the filter changes the array elsewhere
C15_Witness ==
  /\ Returned("medianFilter") /\ call.windowSize = 3
  /\ Len(call.data) >= 3
  /\ Lt(At(call.data, 1), At(call.data, 0))
  /\ At(call.result, 0) = At(call.data, 0)
  /\ call.result # call.data

\* ---- C16 --------------------------------------------------------------
\* d has at least 3 samples, the value o at index p (0-based) and the value
\* c, different from o, everywhere else
OutlierAt(d, p, c, o) ==
  /\ Len(d) >= 3 /\ p \in 0..(Len(d) - 1)
  /\ o # c /\ At(d, p) = o
  /\ \A k \in 0..(Len(d) - 1) : k # p => At(d, k) = c

Constantly(r, c) == \A k \in 1..Len(r) : r[k] = c

\* C16 as stated: an input that is constant except at one index, at any
\* position, filtered with medianFilter and window 3, gives the constant at
\* every index, so the outlier's value does not occur in the output.
C16_OutlierRemoved_AsStated ==
  (Returned("medianFilter") /\ OddWindow = 3)
    => \A p \in 0..(Len(call.data) - 1) :
         OutlierAt(call.data, p, At(call.data, (p + 1) % Len(call.data)),
                   At(call.data, p))
           => Constantly(call.result, At(call.data, (p + 1) % Len(call.data)))

\* C16 (amended): an input of at least 3 samples that is constant except at
\* one index, filtered with medianFilter and window 3, gives the constant at
\* every index when the outlier is not at the first or the last index; an
\* outlier at the first or the last index is replicated by the edge handling
\* and the output equals the input, outlier included.
C16_InteriorOutlierRemoved ==
  (Returned("medianFilter") /\ OddWindow = 3)
    => \A p \in 0..(Len(call.data) - 1) :
         LET c == At(call.data, (p + 1) % Len(call.data))
         IN OutlierAt(call.data, p, c, At(call.data, p))
              => /\ Len(call.result) = Len(call.data)
                 /\ (p > 0 /\ p < Len(call.data) - 1)
                      => Constantly(call.result, c)
                 /\ (p = 0 \/ p = Len(call.data) - 1)
                      => call.result = call.data

\* [1,1,1,9,1,1,1] filtered with window 3: no 9 in the output
C16_Witness ==
  /\ Returned("medianFilter") /\ call.windowSize = 3
  /\ call.data = OutlierExample
  /\ Constantly(call.result, R(1))
  /\ Len(call.result) = 7

\* ---- C17 --------------------------------------------------------------
IsConstant(d) == \A k \in 1..Len(d) : d[k] = d[1]

\* c is an integer and k * |c| fits the significand: the sums c, 2c, ..., kc
\* are all exact
MultiplesFit(c, k) ==
  c[2] = 1 /\ k * (IF c[1] < 0 THEN -c[1] ELSE c[1]) <= Pow2(SignificandBits)

\* C17 as stated: for every constant-valued input array of any length and
\* every window, movingAverage and medianFilter return an array equal to
\* the input.
C17_ConstantUnchanged_AsStated ==
  ((Returned("movingAverage") \/ Returned("medianFilter"))
     /\ IsConstant(call.data))
    => call.result = call.data

\* C17 (amended): for every constant-valued input array and every window,
\* medianFilter returns an array equal to the input; movingAverage equals
\* the input in exact arithmetic, and on doubles it returns an array equal
\* to the input when the multiples c, 2c, ..., kc of the constant c
\* (k = the smaller of the window and the length) are exactly representable,
\* as for an integer c with k * |c| within the significand.
C17_ConstantUnchangedWhenExact ==
  /\ (Returned("medianFilter") /\ IsConstant(call.data))
       => call.result = call.data
  /\ (Returned("movingAverage") /\ IsConstant(call.data))
       => /\ movingAverage(call.data, call.windowSize) = call.data
          /\ (Len(call.data) > 0
                /\ MultiplesFit(call.data[1],
                                IF OddWindow < Len(call.data) THEN OddWindow
                                ELSE Len(call.data)))
               => call.result = call.data

\* window 3 on [3,3,3]: sums 3, 6, 9 are exact and the output is [3,3,3]
C17_Witness ==
  /\ Returned("movingAverage") /\ call.windowSize = 3
  /\ call.data = <<R(3), R(3), R(3)>>
  /\ call.result = call.data

\* ---- C18 --------------------------------------------------------------
\* scale factors that are powers of two up to sign, other factors, shifts
PowerOfTwoScales == {R(2), R(-1), <<1, 2>>, R(-4)}

Scales == PowerOfTwoScales \cup {R(3), <<1, 3>>}

Shifts == {R(0), R(1), R(-5)}

\* a*x + b sample by sample, exactly and on doubles
ScaleShiftExact(x, a, b) == [k \in 1..Len(x) |-> RAdd(RMul(a, x[k]), b)]

ScaleShiftRounded(x, a, b) == [k \in 1..Len(x) |-> FAdd(FMul(a, x[k]), b)]

\* C18 as stated: for every input x, window w and constants a and b,
\* movingAverage(a*x + b, w)[i] = a*movingAverage(x, w)[i] + b at every
\* index i.
C18_Linear_AsStated ==
  Returned("movingAverage")
    => \A a \in Scales, b \in Shifts :
         movingAverageRounded(ScaleShiftRounded(call.data, a, b),
                              call.windowSize)
           = ScaleShiftRounded(call.result, a, b)

\* C18 (amended): movingAverage is linear in exact arithmetic, for every
\* input x, window w and constants a and b; on doubles
\* movingAverage(a*x, w)[i] = a*movingAverage(x, w)[i] holds at every index
\* when a is a power of two up to sign (no rounding is added by the scaling),
\* and other factors and shifts are followed only up to rounding.
C18_LinearWhenExact ==
  Returned("movingAverage")
    => /\ \A a \in Scales, b \in Shifts :
            movingAverage(ScaleShiftExact(call.data, a, b), call.windowSize)
              = ScaleShiftExact(movingAverage(call.data, call.windowSize),
                                a, b)
       /\ \A a \in PowerOfTwoScales :
            movingAverageRounded(ScaleShiftExact(call.data, a, R(0)),
                                 call.windowSize)
              = ScaleShiftExact(call.result, a, R(0))

\* a call whose result was rounded (it differs from the exact mean) and
\* whose input is not constant
C18_Witness ==
  /\ Returned("movingAverage") /\ call.windowSize = 3
  /\ Len(call.data) = 3 /\ ~IsConstant(call.data)
  /\ call.result # movingAverage(call.data, call.windowSize)
  /\ movingAverageRounded(ScaleShiftExact(call.data, R(-4), R(0)), 3)
       = ScaleShiftExact(call.result, R(-4), R(0))

(***************************************************************************)
(* C19: spot-noise membership                                              *)
(***************************************************************************)
SpotDone == call.pc = "out" /\ call.fn = "calculateSpotNoise"

\* the samples the extractor reads: the first visible dataset's curve
SpotSamples == DataContainer(call.datasets[FirstVisible(call.datasets)])

Target(p) == FREQ_POINT_INFOS[p].value

Label(p) == FREQ_POINT_INFOS[p].displayName

Reported(p) == Label(p) \in DOMAIN call.m_spotNoiseData

\* visibleMin <= t <= visibleMax
Visible(t) ==
  /\ RLess(call.range.lower, t) \/ call.range.lower = t
  /\ RLess(t, call.range.upper) \/ call.range.upper = t

\* max(f/t, t/f), whose logarithm is |ln f - ln t|
Factor(f, t) == IF RLess(f, t) THEN RDiv(t, f) ELSE RDiv(f, t)

\* sample k is closest to t in log distance
ClosestTo(k, t) ==
  \A j \in 1..Len(SpotSamples) :
    ~RLess(Factor(SpotSamples[j].key, t), Factor(SpotSamples[k].key, t))

\* t/5 < f < 5t
WithinFactor5(f, t) == RLess(t, RMul(R(5), f)) /\ RLess(f, RMul(R(5), t))

\* f < t/5 or f > 5t
BeyondFactor5(f, t) == RLess(RMul(R(5), f), t) \/ RLess(RMul(R(5), t), f)

ClosestWithin(t) ==
  \E k \in 1..Len(SpotSamples) :
    ClosestTo(k, t) /\ WithinFactor5(SpotSamples[k].key, t)

ClosestBeyond(t) ==
  \E k \in 1..Len(SpotSamples) :
    ClosestTo(k, t) /\ BeyondFactor5(SpotSamples[k].key, t)

\* C19 as stated: the label of target t is in the map if and only if t is
\* in the visible range and the closest sample of the first visible
\* dataset's curve is strictly within a factor 5 of t; a closest sample at
\* exactly a factor 5 leaves the label out; no visible dataset, empty map.
C19_Membership_AsStated ==
  SpotDone =>
    IF FirstVisible(call.datasets) = 0
    THEN DOMAIN call.m_spotNoiseData = {}
    ELSE \A p \in 1..Len(FREQ_POINT_INFOS) :
           Reported(p) <=> (Visible(Target(p)) /\ ClosestWithin(Target(p)))

\* C19, amended: a visible target whose closest sample is strictly within a
\* factor 5 is in the map; a target outside the visible range, or whose
\* closest sample is more than a factor 5 away, is not; the map has no other
\* labels and is empty when no dataset is visible.  (At exactly a factor 5
\* the rounding of the logarithms decides.)
C19_MembershipOffBoundary ==
  SpotDone =>
    IF FirstVisible(call.datasets) = 0
    THEN DOMAIN call.m_spotNoiseData = {}
    ELSE /\ DOMAIN call.m_spotNoiseData \subseteq
              {Label(p) : p \in 1..Len(FREQ_POINT_INFOS)}
         /\ \A p \in 1..Len(FREQ_POINT_INFOS) :
              /\ (Visible(Target(p)) /\ ClosestWithin(Target(p)))
                   => Reported(p)
              /\ (~Visible(Target(p)) \/ ClosestBeyond(Target(p)))
                   => ~Reported(p)

\* a visible dataset; one target reported, one visible target too far from
\* every sample, one target outside the visible range with a sample on it
C19_Witness ==
  /\ SpotDone
  /\ FirstVisible(call.datasets) # 0
  /\ \E p, q, r \in 1..Len(FREQ_POINT_INFOS) :
       /\ Visible(Target(p)) /\ ClosestWithin(Target(p)) /\ Reported(p)
       /\ Visible(Target(q)) /\ ClosestBeyond(Target(q)) /\ ~Reported(q)
       /\ ~Visible(Target(r)) /\ ClosestWithin(Target(r)) /\ ~Reported(r)

(***************************************************************************)
(* C20: spot-noise selection                                               *)
(***************************************************************************)
\* the computed distance of sample k to t
SampleDist(k, t) == LnDist(SpotSamples[k].key, t, call.lnRounding)

\* sample k is at minimal computed distance from t, and no sample of a
\* lower index is at the same distance
LowestOfClosest(k, t) ==
  \A j \in 1..Len(SpotSamples) :
    IF j < k THEN DistLess(SampleDist(k, t), SampleDist(j, t))
    ELSE ~DistLess(SampleDist(j, t), SampleDist(k, t))

\* the first sample at frequency t, 0 when there is none
FirstAt(t) ==
  LET S == {k \in 1..Len(SpotSamples) : SpotSamples[k].key = t}
  IN IF S = {} THEN 0 ELSE CHOOSE k \in S : \A j \in S : k <= j

SampleOf(k) == <<SpotSamples[k].key, SpotSamples[k].value>>

\* C20: every reported target t maps to the sample at minimal log distance
\* from t, the one of lowest index among those at equal minimal distance;
\* a visible target with a sample at exactly its frequency maps to that
\* frequency and the value of the first such sample; a sample at 1000 Hz
\* valued -120 and the visible range [1, 1e6] give "1 kHz" -> (1000, -120).
C20_Selection ==
  (SpotDone /\ FirstVisible(call.datasets) # 0) =>
    /\ \A p \in 1..Len(FREQ_POINT_INFOS) :
         Reported(p) =>
           \E k \in 1..Len(SpotSamples) :
             /\ ClosestTo(k, Target(p))
             /\ LowestOfClosest(k, Target(p))
             /\ call.m_spotNoiseData[Label(p)] = SampleOf(k)
    /\ \A p \in 1..Len(FREQ_POINT_INFOS) :
         (Visible(Target(p)) /\ FirstAt(Target(p)) # 0) =>
           /\ Reported(p)
           /\ call.m_spotNoiseData[Label(p)] = SampleOf(FirstAt(Target(p)))
           /\ call.m_spotNoiseData[Label(p)][1] = Target(p)
    /\ ( /\ SampleOf(1) = <<R(1000), R(0 - 120)>>
         /\ call.range = [lower |-> R(1), upper |-> R(1000000)] )
         => /\ "1 kHz" \in DOMAIN call.m_spotNoiseData
            /\ call.m_spotNoiseData["1 kHz"] = <<R(1000), R(0 - 120)>>

\* two samples at 1000 Hz, the first valued -120, visible range [1, 1e6]:
\* both are at the minimal distance from 1 kHz and the first is reported;
\* and another target has two samples of different frequencies at the same
\* distance
C20_Witness ==
  /\ SpotDone
  /\ FirstVisible(call.datasets) # 0
  /\ call.range = [lower |-> R(1), upper |-> R(1000000)]
  /\ Len(SpotSamples) >= 2
  /\ SampleOf(1) = <<R(1000), R(0 - 120)>>
  /\ SpotSamples[2].key = R(1000)
  /\ SpotSamples[2].value # SpotSamples[1].value
  /\ call.m_spotNoiseData["1 kHz"] = <<R(1000), R(0 - 120)>>

\* two samples of different frequencies at the same computed distance from
\* a reported target, the first of them reported
C20_WitnessTie ==
  /\ SpotDone
  /\ FirstVisible(call.datasets) # 0
  /\ \E p \in 1..Len(FREQ_POINT_INFOS) :
       /\ Reported(p)
       /\ \E j, k \in 1..Len(SpotSamples) :
            /\ j < k
            /\ SpotSamples[j].key # SpotSamples[k].key
            /\ SampleDist(j, Target(p)) = SampleDist(k, Target(p))
            /\ LowestOfClosest(j, Target(p))
            /\ call.m_spotNoiseData[Label(p)] = SampleOf(j)

(***************************************************************************)
(* C21: linearInterpolate                                                  *)
(***************************************************************************)
Interpolate == call.pc = "out" /\ call.fn = "linearInterpolate"

\* y1 + (y2 - y1) * (x - x1) / (x2 - x1) in real numbers
Line(x1, y1, x2, y2, x) ==
  RAdd(y1, RDiv(RMul(RSub(y2, y1), RSub(x, x1)), RSub(x2, x1)))

\* the value v is a double: rounding leaves it alone
IsDouble(v) == Round(v) = v

\* no operation of the formula rounds on the arguments of the call
FormulaExact ==
  LET dx == RSub(call.x2, call.x1)
      dy == RSub(call.y2, call.y1)
      t  == RSub(call.x, call.x1)
  IN /\ IsDouble(dx) /\ IsDouble(dy) /\ IsDouble(t)
     /\ IsDouble(RMul(dy, t))
     /\ IsDouble(RDiv(RMul(dy, t), dx))
     /\ IsDouble(Line(call.x1, call.y1, call.x2, call.y2, call.x))

\* C21 as stated: the result is y1 when x2 = x1; otherwise it is the value of
\* y1 + (y2-y1)*(x-x1)/(x2-x1), which is y1 at x = x1 and y2 at x = x2.
C21_Interpolate_AsStated ==
  Interpolate =>
    IF call.x2 = call.x1 THEN call.result = call.y1
    ELSE /\ call.x = call.x1 => call.result = call.y1
         /\ call.x = call.x2 => call.result = call.y2

\* C21, amended: the result is y1 whenever |x2 - x1| is below the machine
\* epsilon (x2 = x1 included); otherwise it is y1 at x = x1, it is the value
\* of the formula whenever no operation rounds, and it is y2 at x = x2
\* whenever y2 - y1 and its product with x2 - x1 are computed without
\* rounding.
C21_InterpolateUpToRounding ==
  Interpolate =>
    IF RLess(RAbs(RSub(call.x2, call.x1)), epsilon)
    THEN call.result = call.y1
    ELSE /\ call.x = call.x1 => call.result = call.y1
         /\ FormulaExact
              => call.result
                   = Line(call.x1, call.y1, call.x2, call.y2, call.x)
         /\ ( /\ call.x = call.x2
              /\ IsDouble(RSub(call.y2, call.y1))
              /\ IsDouble(RMul(RSub(call.y2, call.y1),
                               FSub(call.x2, call.x1))) )
              => call.result = call.y2

\* the degenerate example interpolate(0, 0, 0, 10, 5) = 0
C21_Witness ==
  /\ Interpolate
  /\ call.x1 = R(0) /\ call.y1 = R(0) /\ call.x2 = R(0) /\ call.y2 = R(10)
  /\ call.x = R(5)
  /\ call.result = R(0)

\* a proper interval met at its right end without rounding: the result is y2
C21_WitnessRightEnd ==
  /\ Interpolate
  /\ ~RLess(RAbs(RSub(call.x2, call.x1)), epsilon)
  /\ call.x = call.x2 /\ call.y1 # call.y2
  /\ call.result = call.y2

(***************************************************************************)
(* C22: the raw arrays are never modified                                  *)
(***************************************************************************)
RawArrays(d) == <<d.frequencyOffset, d.phaseNoise, d.referenceNoise>>

RawOfAll(datasets) == [k \in 1..Len(datasets) |-> RawArrays(datasets[k])]

\* the list s without its r-th element
Without(s, r) ==
  [k \in 1..(Len(s) - 1) |-> IF k < r THEN s[k] ELSE s[k + 1]]

\* C22: every step leaves the raw arrays (frequencyOffset, phaseNoise,
\* referenceNoise) of every dataset as they were loaded: a step that keeps
\* or adds datasets leaves the raw arrays of the ones it had, a removal
\* leaves those of the remaining ones.
C22_RawArraysKept ==
  [][IF Len(m_datasets') < Len(m_datasets)
     THEN \E r \in 1..Len(m_datasets) :
            RawOfAll(m_datasets') = Without(RawOfAll(m_datasets), r)
     ELSE \A k \in 1..Len(m_datasets) :
            RawArrays(m_datasets'[k]) = RawArrays(m_datasets[k])]_vars

\* filtering and spur removal are both on and have changed a filtered copy
C22_Witness ==
  /\ m_filteringEnabled /\ m_spurRemovalEnabled
  /\ \E k \in 1..Len(m_datasets) :
       /\ m_datasets[k].phaseNoiseFiltered # m_datasets[k].phaseNoise
       /\ m_datasets[k].referenceNoiseFiltered # m_datasets[k].referenceNoise
       /\ m_datasets[k].sourceMeas # m_datasets[k].phaseNoiseFiltered

(***************************************************************************)
(* C23: positive frequencies, arrays of one length                         *)
(***************************************************************************)
\* C23: in every reachable state every frequencyOffset value of every
\* dataset is strictly positive, and frequencyOffset, phaseNoise,
\* referenceNoise, phaseNoiseFiltered and referenceNoiseFiltered have the
\* same length.
C23_PositiveAndAligned ==
  \A k \in 1..Len(m_datasets) :
    LET d == m_datasets[k]
    IN /\ \A i \in 1..Len(d.frequencyOffset) :
            RGt(d.frequencyOffset[i], R(0))
       /\ Len(d.phaseNoise) = Len(d.frequencyOffset)
       /\ Len(d.referenceNoise) = Len(d.frequencyOffset)
       /\ Len(d.phaseNoiseFiltered) = Len(d.frequencyOffset)
       /\ Len(d.referenceNoiseFiltered) = Len(d.frequencyOffset)

\* the file with rows of frequency 0, NaN and -1 is loaded (its valid rows
\* are 1 Hz and 2 Hz), filtering and spur removal are on
C23_Witness ==
  /\ m_filteringEnabled /\ m_spurRemovalEnabled
  /\ \E k \in 1..Len(m_datasets) :
       /\ m_datasets[k].frequencyOffset = <<R(1), R(2)>>
       /\ m_datasets[k].phaseNoise = <<R(1), R(4)>>

(***************************************************************************)
(* C24: the window applyDataFiltering reads                                *)
(***************************************************************************)
\* C24: the value of the window spin box, which applyDataFiltering hands to
\* the filters, is always odd, at least 3 and at most 51, whatever values
\* (even ones included) were entered.
C24_WindowOddInRange ==
  /\ m_filterWindowSpin % 2 = 1
  /\ m_filterWindowSpin >= 3
  /\ m_filterWindowSpin <= 51

\* a window other than the default was entered and the datasets were
\* filtered with it: the largest one, and some dataset differs from its raw
\* measurement
C24_Witness ==
  /\ m_filteringEnabled
  /\ m_filterWindowSpin = MAX_WINDOW_SIZE
  /\ \E k \in 1..Len(m_datasets) :
       m_datasets[k].phaseNoiseFiltered # m_datasets[k].phaseNoise

(***************************************************************************)
(* C25: spur removal without reference data                                *)
(***************************************************************************)
AnyHasRef(datasets) ==
  \E k \in 1..Len(datasets) : datasets[k].hasReferenceData

\* a step that leaves the filter settings and the number of datasets alone,
\* taken while spur removal is off and no dataset has reference data: a
\* request to enable spur removal is such a step
RequestWithoutRef ==
  /\ ~m_spurRemovalEnabled
  /\ ~AnyHasRef(m_datasets)
  /\ Len(m_datasets') = Len(m_datasets)
  /\ UNCHANGED <<m_filteringEnabled, m_filterTypeCombo, m_filterWindowSpin,
                 filterControlsEnabled>>

Rejected == ~m_spurRemovalEnabled' /\ m_datasets' = m_datasets

\* C25 as stated: a request to enable spur removal while no dataset has
\* reference data leaves the flag false and the datasets unchanged, and
\* spur removal is enabled only in states where some dataset has reference
\* data.
C25_OnlyWithReference_AsStated ==
  /\ [][RequestWithoutRef => Rejected]_vars
  /\ [](m_spurRemovalEnabled => AnyHasRef(m_datasets))

\* C25, amended: such a request leaves the flag false and the datasets
\* unchanged, and the flag turns from false to true only in a step that
\* starts and ends with a dataset that has reference data.  (It stays true
\* when that dataset is removed.)
C25_EnabledOnlyWithReference ==
  [][/\ RequestWithoutRef => Rejected
     /\ (~m_spurRemovalEnabled /\ m_spurRemovalEnabled')
          => (AnyHasRef(m_datasets) /\ AnyHasRef(m_datasets'))]_vars

\* datasets are loaded, none has reference data, spur removal is off and
\* filtering is on: a request to enable spur removal is rejected here
C25_Witness ==
  /\ Len(m_datasets) > 0
  /\ ~AnyHasRef(m_datasets)
  /\ ~m_spurRemovalEnabled
  /\ m_filteringEnabled

\* spur removal is still enabled after the last dataset with reference data
\* was removed
C25_WitnessAfterRemoval ==
  /\ Len(m_datasets) > 0
  /\ ~AnyHasRef(m_datasets)
  /\ m_spurRemovalEnabled

(***************************************************************************)
(* C26: spur removal never extrapolates                                    *)
(***************************************************************************)
Ascending(s) == \A k \in 1..(Len(s) - 1) : RLess(s[k], s[k + 1])

SpurRoundedDone == call.pc = "out" /\ call.fn = "applySpurRemoval"

Samples(s) == {s[k] : k \in 1..Len(s)}

Lowest(s) == CHOOSE v \in Samples(s) : \A w \in Samples(s) : ~RLess(w, v)

Highest(s) == CHOOSE v \in Samples(s) : \A w \in Samples(s) : ~RLess(v, w)

Within(out, lo, hi) ==
  \A k \in 1..Len(out) : ~RLess(out[k], lo) /\ ~RLess(hi, out[k])

\* the largest magnitude of the source array
Magnitude(s) ==
  LET a == RAbs(Lowest(s))
      b == RAbs(Highest(s))
  IN IF RLess(a, b) THEN b ELSE a

\* eight epsilons of the largest magnitude
RoundingSlack(s) == RMul(RMul(R(8), epsilon), Magnitude(s))

\* the result of the same run when linearInterpolate is computed exactly
ExactRuns ==
  {RemoveSpurs(call.frequencyOffset, call.sourceRef, call.sourceMeas, b) :
     b \in rollingMedian(call.sourceRef, DEFAULT_SPUR_WINDOW_SIZE)}

SpurRunDone == spur.pc = "done" /\ Len(spur.sourceMeas) > 0

\* C27: for every reference content and frequency axis, the output measured
\* value at index 0 equals the source measured value at index 0.
C27_FirstSampleKept ==
  SpurRunDone => At(spur.phaseNoiseFiltered, 0) = At(spur.sourceMeas, 0)

\* a run in which sample 0 is marked as a spur and pass 1 wrote index 0 by
\* interpolation towards a right anchor with another frequency and value
C27_Witness ==
  /\ SpurRunDone
  /\ Len(spur.isSpur) >= 3
  /\ At(spur.isSpur, 0)
  /\ LET right == FindRight(spur.isSpur, SkipSpurs(spur.isSpur, 0))
     IN /\ At(spur.frequencyOffset, right) # At(spur.frequencyOffset, 0)
        /\ At(spur.sourceMeas, right) # At(spur.sourceMeas, 0)

\* a run in which pass 2 replaced the region that starts at index 1
C27_WitnessPass2 ==
  /\ SpurRunDone
  /\ <<"rising", 1>> \in spur.edges
  /\ At(spur.phaseNoiseFiltered, 1) # At(spur.sourceMeas, 1)

(***************************************************************************)
(* C28: both scans of spur removal terminate                               *)
(***************************************************************************)
\* a step that stays inside one of the two while loops
LoopIteration == spur.pc \in {"pass1", "pass2"} /\ spur'.pc = spur.pc

\* C28: the pass-1 index and the pass-2 index strictly increase on every loop
\* iteration and never pass N, including when pass 2 resumes at the
\* falling-edge index j, so each pass ends after at most N iterations and
\* every run reaches its end.
C28_ScansTerminate ==
  /\ [][LoopIteration => (spur'.i > spur.i /\ spur'.i <= Len(spur.sourceRef))]_vars
  /\ <>(spur.pc = "done")

\* pass 2 has just resumed at a falling edge j more than one sample after
\* the rising edge of the region
C28_Witness ==
  /\ spur.pc = "pass2"
  /\ <<"falling", spur.i>> \in spur.edges
  /\ \E start \in 1..(spur.i - 2) :
       /\ <<"rising", start>> \in spur.edges
       /\ \A k \in (start + 1)..(spur.i - 1) : <<"falling", k>> \notin spur.edges

\* pass 1 has just skipped a run of more than one marked sample
C28_WitnessPass1 ==
  /\ spur.pc = "pass1"
  /\ spur.i >= 2
  /\ At(spur.isSpur, spur.i - 1) /\ At(spur.isSpur, spur.i - 2)
  /\ (spur.i < Len(spur.isSpur) => ~At(spur.isSpur, spur.i))

(***************************************************************************)
(* C29: the frequency-range slider indices                                 *)
(***************************************************************************)
StepRange(minIndex, maxIndex) ==
  [lower |-> At(FREQ_POINTS, minIndex), upper |-> At(FREQ_POINTS, maxIndex)]

\* one decade upwards from a step
DecadeFrom(minIndex) ==
  [lower |-> At(FREQ_POINTS, minIndex),
   upper |-> RMul(At(FREQ_POINTS, minIndex), R(10))]

\* C29 as stated: 0 <= minIndex < maxIndex <= 8 after any sequence of file
\* loads and slider changes, and the range updatePlot hands to the spot-noise
\* extractor is [FREQ_POINTS[minIndex], FREQ_POINTS[maxIndex]], of strictly
\* positive width.
C29_SliderOrder_AsStated ==
  /\ 0 <= call.m_minFreqSliderIndex
  /\ call.m_minFreqSliderIndex < call.m_maxFreqSliderIndex
  /\ call.m_maxFreqSliderIndex <= Len(FREQ_POINTS) - 1
  /\ call.replotted =>
       /\ call.range = StepRange(call.m_minFreqSliderIndex,
                                 call.m_maxFreqSliderIndex)
       /\ RLess(call.range.lower, call.range.upper)

\* C29 (amended): 0 <= minIndex <= maxIndex <= 8 after any sequence of file
\* loads, removals and slider changes; the range updatePlot hands to the
\* spot-noise extractor is [FREQ_POINTS[minIndex], FREQ_POINTS[maxIndex]]
\* when minIndex < maxIndex and the decade [FREQ_POINTS[minIndex],
\* 10 * FREQ_POINTS[minIndex]] when the two indices are equal, so its width
\* is strictly positive.
C29_SliderOrderNotStrict ==
  /\ 0 <= call.m_minFreqSliderIndex
  /\ call.m_minFreqSliderIndex <= call.m_maxFreqSliderIndex
  /\ call.m_maxFreqSliderIndex <= Len(FREQ_POINTS) - 1
  /\ call.replotted =>
       /\ call.range = IF call.m_minFreqSliderIndex < call.m_maxFreqSliderIndex
                       THEN StepRange(call.m_minFreqSliderIndex,
                                      call.m_maxFreqSliderIndex)
                       ELSE DecadeFrom(call.m_minFreqSliderIndex)
       /\ RLess(call.range.lower, call.range.upper)

\* a first file spanning less than a decade was loaded: both indices are on
\* the same step and the plot was updated
C29_Witness ==
  /\ call.fn = "sliders"
  /\ call.datasets = 1
  /\ call.replotted
  /\ call.m_minFreqSliderIndex = call.m_maxFreqSliderIndex
  /\ call.m_minFreqSliderIndex \in 1..(Len(FREQ_POINTS) - 2)

\* a slider change was clamped: the min slider sits just below the max
\* slider and the plot was not updated
C29_WitnessClamped ==
  /\ call.fn = "sliders"
  /\ ~call.replotted
  /\ call.datasets > 0
  /\ call.m_minFreqSliderIndex = call.m_maxFreqSliderIndex - 1

(***************************************************************************)
(* C30: index reflection in savitzkyGolay has no observable effect         *)
(***************************************************************************)
\* the call passed the guards: the filter is applied with a kernel
SGApplied ==
  /\ SGReturned
  /\ Oddify(call.windowSize) >= 5
  /\ Len(call.data) >= Oddify(call.windowSize)

AppliedKernel == SGKernel(Oddify(call.windowSize))

AppliedHalf == AppliedKernel.windowSize \div 2

\* the kernel applied to the samples i - half..i + half themselves, with no
\* boundary rule
RECURSIVE PlainSum(_, _, _, _, _)
PlainSum(data, coeffs, i, j, half) ==
  IF j > half THEN R(0)
  ELSE RAdd(RMul(R(At(coeffs, j + half)), At(data, i + j)),
            PlainSum(data, coeffs, i, j + 1, half))

\* boundary rules for an array of n samples and a window of half h: where
\* an index outside 0..n-1 is read
ClampRule(n, h) == [index \in (-h)..(n - 1 + h) |-> ClampIndex(index, n)]

WrapRule(n, h) == [index \in (-h)..(n - 1 + h) |-> index % n]

FirstSampleRule(n, h) ==
  [index \in (-h)..(n - 1 + h) |->
     IF index < 0 \/ index >= n THEN 0 ELSE index]

ReflectRule(n, h) == [index \in (-h)..(n - 1 + h) |-> SGIndex(index, n)]

BoundaryRules(n, h) == {ClampRule(n, h), WrapRule(n, h), FirstSampleRule(n, h)}

RECURSIVE RuleSum(_, _, _, _, _, _)
RuleSum(data, coeffs, i, j, half, rule) ==
  IF j > half THEN R(0)
  ELSE RAdd(RMul(R(At(coeffs, j + half)), At(data, rule[i + j])),
            RuleSum(data, coeffs, i, j + 1, half, rule))

\* the convolution loop under a boundary rule
ConvolveUnder(data, kern, rule) ==
  [i1 \in 1..Len(data) |->
     RDiv(RuleSum(data, kern.coeffs, i1 - 1, -(kern.windowSize \div 2),
                  kern.windowSize \div 2, rule),
          R(kern.norm))]

\* the filter with the convolution loop under a boundary rule
FilterUnder(data, kern, rule) ==
  SGCopyEdges(data, ConvolveUnder(data, kern, rule), kern.windowSize \div 2)

\* C30: whenever the filter is applied, every returned sample is a verbatim
\* copy of the input (indices within half the kernel length of either end)
\* or a convolution whose window i - half..i + half lies inside 0..n-1, and
\* replacing reflection by clamping or another boundary rule yields the same
\* output.
C30_ReflectionUnobservable ==
  SGApplied =>
    /\ Len(call.result) = Len(call.data)
    /\ \A i \in 0..(Len(call.data) - 1) :
         IF i < AppliedHalf \/ i >= Len(call.data) - AppliedHalf
         THEN At(call.result, i) = At(call.data, i)
         ELSE /\ i - AppliedHalf >= 0
              /\ i + AppliedHalf <= Len(call.data) - 1
              /\ At(call.result, i) =
                   RDiv(PlainSum(call.data, AppliedKernel.coeffs, i,
                                 -AppliedHalf, AppliedHalf),
                        R(AppliedKernel.norm))
    /\ \A rule \in BoundaryRules(Len(call.data), AppliedHalf) :
         call.result = FilterUnder(call.data, AppliedKernel, rule)

\* an applied call that smoothed an interior sample and whose convolution
\* loop gave, at an edge sample, a value that clamping would not have given
C30_Witness ==
  /\ SGApplied
  /\ call.result # call.data
  /\ \E i \in 0..(AppliedHalf - 1) :
       SGConvolve(call.data, AppliedKernel)[i + 1] #
         ConvolveUnder(call.data, AppliedKernel,
                       ClampRule(Len(call.data), AppliedHalf))[i + 1]

\* an applied call on an input shorter than the kernel: requested window 9,
\* kernel of 11, nine or ten samples, every sample copied
C30_WitnessShorterThanKernel ==
  /\ SGApplied
  /\ Len(call.data) < AppliedKernel.windowSize
  /\ call.result = call.data
  /\ SGConvolve(call.data, AppliedKernel) # call.data

====
